---- MODULE Spec2Model ----
\* The AT command dispatcher of rehiy/modem (package at): Device.SendCommand,
\* Device.readResponse, Device.readAndDispatch, Device.Close, the line
\* classifiers NotificationSet.IsNotification and ResponseSet.IsFinal.
\*
\* Strings are sequences of one-character strings, so that prefix, suffix and
\* trimming are computed character by character as the Go code does.
\* "SUB" stands for the byte 0x1A (Ctrl+Z) and "ESC" for the byte 0x1B.
EXTENDS Integers, Sequences, FiniteSets, TLC

\* ---------------------------------------------------------------- constants
\* The limits of SendSMSText: the longest single message and the longest
\* segment of a long one, in characters, for the 7-bit and the UCS2 encoding.
MaxSMSLength == 160
MaxUCS2SMSLength == 70
MaxConcatSMSLength == 153
MaxUCS2ConcatLength == 67

\* ---------------------------------------------------------------- bounds
\* Number of bytes of a stream the port delivers.
MaxStream == 4
\* Number of digits of a phone number.
MaxDigits == 5
\* Number of TPDUs sms.Encode produced for the message of a SendSmsPdu.
MaxSegments == 2
\* Number of SendCommand invocations over one run, all callers together.
MaxCalls == 2
\* Number of non-empty lines the modem emits over one run.
MaxLines == 2
\* Capacity of the response channel (make(chan string, 100) in New, scaled down
\* so that the channel-full branch of readAndDispatch is exercised).
ChanCap == 1
\* config.Timeout after New's default (time.Second), and the timeout SendSmsPdu
\* sets while it runs (time.Second * 60), in seconds.
ConfigTimeout == 1
SmsTimeout == 60

\* The goroutines that call SendCommand, and those that call Close (each once).
\* The goroutines of a kind are interchangeable: one starts its first call only
\* when those numbered below it have started theirs.
Callers == {1, 2}
Closers == {1, 2}
None == 0

\* ---------------------------------------------------------------- strings
\* strings.HasPrefix
HasPrefix(s, p) == Len(p) <= Len(s) /\ SubSeq(s, 1, Len(p)) = p

\* strings.HasSuffix
HasSuffix(s, p) == Len(p) <= Len(s) /\ SubSeq(s, Len(s) - Len(p) + 1, Len(s)) = p

\* strings.Contains
Contains(s, sub) == \E i \in 1..(Len(s) + 1) : HasPrefix(SubSeq(s, i, Len(s)), sub)

\* The characters strings.TrimSpace removes (the ASCII ones).
WhiteSpace == {" ", "\t", "\n", "\r", "\f"}

\* strings.TrimSpace
RECURSIVE TrimLeft(_)
TrimLeft(s) == IF s # <<>> /\ Head(s) \in WhiteSpace THEN TrimLeft(Tail(s)) ELSE s

RECURSIVE TrimRight(_)
TrimRight(s) ==
  IF s # <<>> /\ s[Len(s)] \in WhiteSpace THEN TrimRight(SubSeq(s, 1, Len(s) - 1)) ELSE s

TrimSpace(s) == TrimRight(TrimLeft(s))

\* The command terminators: CR, LF, CRLF, Ctrl+Z, ESC.
Terminators == << <<"\r">>, <<"\n">>, <<"\r", "\n">>, <<"SUB">>, <<"ESC">> >>

\* Mutant of hasTerminator: only CRLF counts as a terminator.
hasTerminator_CrLfOnly(cmd) == HasSuffix(cmd, <<"\r", "\n">>)

\* hasTerminator: the command ends with one of the terminators.
hasTerminator(cmd) == \E i \in 1..Len(Terminators) : HasSuffix(cmd, Terminators[i])

\* strings.Split(s, sep) for a one-character separator: the pieces between the
\* separators, one piece (s itself) when there is none.
RECURSIVE Split(_, _)
Split(s, sep) ==
  LET at == {i \in 1..Len(s) : s[i] = sep}
  IN  IF at = {} THEN <<s>>
      ELSE LET i == CHOOSE k \in at : \A j \in at : k <= j
           IN  <<SubSeq(s, 1, i - 1)>> \o Split(SubSeq(s, i + 1, Len(s)), sep)

\* strings.Trim(s, cutset): the leading and trailing characters of cutset removed.
RECURSIVE Trim(_, _)
Trim(s, cutset) ==
  IF s # <<>> /\ Head(s) \in cutset THEN Trim(Tail(s), cutset)
  ELSE IF s # <<>> /\ s[Len(s)] \in cutset THEN Trim(SubSeq(s, 1, Len(s) - 1), cutset)
  ELSE s

\* parseParam: "LABEL: v1,v2" gives the label and the values (param[i] of the Go
\* map is param[i + 1] here), each trimmed of spaces and then of quotes; a line
\* without a colon gives the line and no map (nil |-> TRUE).
parseParam(line) ==
  LET at == {i \in 1..Len(line) : line[i] = ":"}
  IN  IF at = {} THEN [label |-> line, param |-> <<>>, nil |-> TRUE]
      ELSE LET i == CHOOSE k \in at : \A j \in at : k <= j
               group == Split(TrimSpace(SubSeq(line, i + 1, Len(line))), ",")
           IN  [label |-> TrimSpace(SubSeq(line, 1, i - 1)),
                param |-> [j \in 1..Len(group) |-> Trim(TrimSpace(group[j]), {"\"", "'"})],
                nil |-> FALSE]

\* ---------------------------------------------------------------- classifier
\* DefaultNotificationSet: the URC prefixes in the order of the struct's fields,
\* which is the order GetAllNotifications (reflection over the fields) lists them.
DefaultNotifications ==
  << <<"R", "I", "N", "G">>,
     <<"N", "O", " ", "C", "A", "R", "R", "I", "E", "R">>,
     <<"B", "U", "S", "Y">>,
     <<"N", "O", " ", "A", "N", "S", "W", "E", "R">>,
     <<"N", "O", " ", "D", "I", "A", "L", "T", "O", "N", "E">>,
     <<"+", "C", "R", "I", "N", "G">>,
     <<"+", "C", "L", "I", "P">>,
     <<"+", "C", "L", "C", "C">>,
     <<"+", "C", "C", "W", "A">>,
     <<"+", "C", "O", "L", "P">>,
     <<"+", "C", "S", "S", "I">>,
     <<"+", "C", "S", "S", "U">>,
     <<"+", "C", "M", "T", "I">>,
     <<"+", "C", "M", "T">>,
     <<"+", "C", "D", "S">>,
     <<"+", "C", "B", "M">>,
     <<"+", "C", "N", "M", "A">>,
     <<"+", "C", "R", "E", "G">>,
     <<"+", "C", "G", "R", "E", "G">>,
     <<"+", "C", "E", "R", "E", "G">>,
     <<"+", "C", "5", "G", "R", "E", "G">>,
     <<"+", "C", "I", "R", "E", "G">>,
     <<"+", "C", "O", "P", "S">>,
     <<"+", "C", "S", "Q">>,
     <<"+", "C", "T", "Z", "V">>,
     <<"+", "C", "T", "Z", "U">>,
     <<"+", "C", "G", "E", "V">>,
     <<"+", "5", "G", "M", "M">>,
     <<"+", "E", "M", "M">>,
     <<"+", "G", "M", "M">>,
     <<"+", "C", "I", "E", "V">>,
     <<"+", "C", "D", "I", "S">>,
     <<"+", "C", "H", "L", "D">>,
     <<"+", "C", "C", "F", "C">>,
     <<"+", "C", "M", "G", "S">>,
     <<"+", "C", "M", "G", "W">>,
     <<"+", "R", "D", "Y">>,
     <<"+", "B", "O", "O", "T">>,
     <<"+", "C", "I", "P", "O", "P", "E", "N">>,
     <<"+", "C", "I", "P", "C", "L", "O", "S", "E">>,
     <<"+", "C", "I", "P", "R", "X", "G", "O", "T">>,
     <<"+", "C", "I", "P", "S", "E", "N", "D">>,
     <<"+", "C", "P", "I", "N">>,
     <<"+", "C", "M", "S", " ", "E", "R", "R", "O", "R">>,
     <<"+", "C", "M", "E", " ", "E", "R", "R", "O", "R">>,
     <<"+", "C", "U", "S", "D">> >>

\* DefaultResponseSet: the final-result tokens in field order; CustomFinal is empty.
DefaultResponses ==
  << <<"O", "K">>,
     <<"E", "R", "R", "O", "R">>,
     <<"N", "O", " ", "C", "A", "R", "R", "I", "E", "R">>,
     <<"N", "O", " ", "A", "N", "S", "W", "E", "R">>,
     <<"N", "O", " ", "D", "I", "A", "L", "T", "O", "N", "E">>,
     <<"B", "U", "S", "Y">>,
     <<"C", "O", "N", "N", "E", "C", "T">>,
     <<"+", "C", "M", "E", " ", "E", "R", "R", "O", "R">>,
     <<"+", "C", "M", "S", " ", "E", "R", "R", "O", "R">>,
     <<"+", "C", "I", "S", " ", "E", "R", "R", "O", "R">>,
     <<">">> >>

CMEError == <<"+", "C", "M", "E", " ", "E", "R", "R", "O", "R">>
CMSError == <<"+", "C", "M", "S", " ", "E", "R", "R", "O", "R">>

\* GetAllNotifications: the non-empty prefixes, in field order.
GetAllNotifications == SelectSeq(DefaultNotifications, LAMBDA v : v # <<>>)

\* GetAllResponses: the non-empty string fields, then CustomFinal (empty).
GetAllResponses == SelectSeq(DefaultResponses, LAMBDA v : v # <<>>)

\* The first element of items that line starts with, "" when there is none
\* (the loop with break of IsNotification).
FirstPrefix(line, items) ==
  LET hits == {i \in 1..Len(items) : items[i] # <<>> /\ HasPrefix(line, items[i])}
  IN  IF hits = {} THEN <<>>
      ELSE items[CHOOSE i \in hits : \A j \in hits : i <= j]

\* Mutant of IsNotification: the command in flight is not compared with the prefix.
IsNotification_NoSuppression(line, cmd) ==
  LET urc == FirstPrefix(line, GetAllNotifications)
  IN  IF cmd # <<>> /\ urc # <<>> /\ Head(urc) = "+"
         /\ (urc = CMEError \/ urc = CMSError)
      THEN FALSE
      ELSE urc # <<>>

\* NotificationSet.IsNotification(line, cmd)
IsNotification(line, cmd) ==
  LET urc == FirstPrefix(line, GetAllNotifications)
  IN  IF cmd # <<>> /\ urc # <<>> /\ Head(urc) = "+"
         /\ (urc = CMEError \/ urc = CMSError \/ HasPrefix(cmd, <<"A", "T">> \o urc))
      THEN FALSE
      ELSE urc # <<>>

\* ResponseSet.IsFinal(line)
IsFinal(line) ==
  \E i \in 1..Len(GetAllResponses) :
     GetAllResponses[i] # <<>> /\ HasPrefix(line, GetAllResponses[i])

\* ---------------------------------------------------------------- inputs
\* The command texts the callers pass to SendCommand.
Commands == { <<"A", "T", "+", "C", "S", "Q">> }

\* The raw lines bufio.Reader.ReadString('\n') returns from the port: a final
\* result, a response to AT+CSQ, a result code that is also a URC prefix, a URC,
\* and a blank line.
ModemLines ==
  { <<"O", "K", "\r", "\n">>,
    <<"+", "C", "S", "Q", ":", " ", "1", "5", ",", "0", "\r", "\n">>,
    <<"N", "O", " ", "C", "A", "R", "R", "I", "E", "R", "\r", "\n">>,
    <<"+", "C", "M", "T", "I", ":", " ", "\"", "S", "M", "\"", ",", "3", "\r", "\n">>,
    <<"\r", "\n">> }

\* What Port.Write reports: all bytes written, fewer bytes, or an error.
WriteOutcomes == {"ok", "short", "err"}

\* What a failed ReadString reports.
ReadErrors == {"EOF", "other"}

\* ---------------------------------------------------------------- state
VARIABLES
  closed,        \* Device.closed (atomic.Bool)
  chanClosed,    \* close(m.responseChan) has run
  nChanClose,    \* how many times the response channel was closed
  nPortClose,    \* how many times Device.Close called port.Close
  closeWhileAwait, \* history: the caller that was waiting in readResponse when Close set the flag
  crashed,       \* a goroutine panicked: the process is gone
  responseChan,  \* Device.responseChan: the buffered lines, oldest first
  cmd,           \* Device.cmd (atomic.Value): [ok |-> a value was stored, s |-> it]
  mu,            \* Device.mu: the caller holding it, or None
  pc,            \* where each caller is in SendCommand
  arg,           \* the cmd parameter of each caller's SendCommand
  responses,     \* readResponse's local slice of each caller, the lines it returns
  timer,         \* readResponse's time.After channel of each caller has fired
  result,        \* what each caller's SendCommand returns: [err, lines] ("none": not yet)
  nCalls,        \* history: SendCommand invocations so far
  afterClose,    \* history: the call was invoked after some Close() had returned
  nWrites,       \* history: port.Write calls of each caller's current call
  writers,       \* the callers inside port.Write
  rpc,           \* where the reader goroutine is in readAndDispatch
  rline,         \* the reader's local line: [id, txt]
  nRead,         \* history: non-empty lines read so far (the arrival index)
  fate,          \* history: what happened to the reader's current line
  nUrc,          \* history: URC handler goroutines started (go m.urcHandler(...))
  rerr,          \* the reader's local err: what its last ReadString reported
  kpc,           \* where each closer is in Close
  sms,           \* SendSmsPdu: [pc, seg, err], where its loop is and what it returned
  events,        \* history of a SendSmsPdu: its port writes and its SendCommand returns
  timeout,       \* [dev, rd, armed]: Device.timeout in seconds, the rdTimeout local of
                 \* SendSmsPdu, and the duration each caller's readResponse gave time.After
  urcs,          \* the goroutines of go m.urcHandler(...): [created, started], the lines
                 \* (by arrival index) in the order of the go statements and in the
                 \* order in which the goroutines began to run
  pipes,         \* the reassembly table of the collector: the pending segments
  out,           \* what the last Collect returned: [segs, err]
  fed,           \* history: the concatenated segments handed to Collect so far
  emits,         \* history: the segment lists Collect returned for the groups
  rt,            \* the reassembly timeout of the collector: [mu, cin, timer, cbs, calls]
  tx,            \* SendSMSText: [pc, message, i, sent, err]: its message (Text gives the
                 \* characters), its loop, the PDUs it sent (ud: the slice of the message)
  enc            \* a function under check on its own (a codec of package pdu, the
                 \* reader's framing, a classifier): its input and its result

flagVars == <<closed, chanClosed, nChanClose, nPortClose, closeWhileAwait>>
callVars == <<pc, arg, responses, timer, result, nCalls, afterClose, nWrites, writers>>
readVars == <<rpc, rline, nRead, fate, nUrc, rerr>>
devVars == <<flagVars, crashed, responseChan, cmd, mu, callVars, readVars, kpc>>
smsVars == <<sms, events, timeout, urcs>>
colVars == <<pipes, out, fed, emits, rt>>
pduVars == <<tx, enc>>
vars == <<devVars, smsVars, colVars, pduVars>>

NoResult == [err |-> "none", lines |-> <<>>]
NoLine == [id |-> 0, txt |-> <<>>]
\* fate.aw: a SendCommand was waiting in readResponse when the line was read;
\* fate.queued, fate.handled, fate.dropped: how often the line was put on the
\* response channel, handed to the URC handler, discarded on a full channel.
NoFate == [aw |-> FALSE, queued |-> 0, handled |-> 0, dropped |-> 0]

\* New: the zero Device with a fresh channel; no value is stored in cmd; the
\* reader goroutine is started at the top of its loop.
DevInit ==
  /\ closed = FALSE /\ chanClosed = FALSE /\ nChanClose = 0 /\ nPortClose = 0
  /\ closeWhileAwait = None
  /\ crashed = FALSE
  /\ responseChan = <<>>
  /\ cmd = [ok |-> FALSE, s |-> <<>>]
  /\ mu = None
  /\ pc = [c \in Callers |-> "idle"]
  /\ arg = [c \in Callers |-> <<>>]
  /\ responses = [c \in Callers |-> <<>>]
  /\ timer = [c \in Callers |-> FALSE]
  /\ result = [c \in Callers |-> NoResult]
  /\ nCalls = 0
  /\ afterClose = [c \in Callers |-> FALSE]
  /\ nWrites = [c \in Callers |-> 0]
  /\ writers = {}
  /\ rpc = "top" /\ rline = NoLine /\ nRead = 0 /\ fate = NoFate /\ nUrc = 0
  /\ rerr = "nil"
  /\ kpc = [k \in Closers |-> "idle"]

\* No SendSmsPdu is running.
NoSms == [pc |-> "none", seg |-> 0, err |-> "none"]
NoArmed == [c \in Callers |-> 0]
NoUrcs == [created |-> <<>>, started |-> <<>>]
SmsIdle ==
  /\ sms = NoSms /\ events = <<>> /\ urcs = NoUrcs
  /\ timeout = [dev |-> ConfigTimeout, rd |-> ConfigTimeout, armed |-> NoArmed]

\* No collector is in use.
NoTpdu == [oa |-> "", ref |-> 0, total |-> 0, seq |-> 0, ud |-> ""]
NoOut == [t |-> NoTpdu, segs |-> <<>>, err |-> "none"]

\* The groups of a collector made with WithReassemblyTimeout.
ExpiryGroups ==
  { [oa |-> "A", ref |-> 1, total |-> 2],
    [oa |-> "B", ref |-> 2, total |-> 2] }
ExpiryKeys == { <<g.oa, g.ref, g.total>> : g \in ExpiryGroups }

\* rt.mu: who holds the mutex of the table (who: "free", "caller", "timer" with
\* the key of its group, "cb" with the index of the callback); rt.cin: the TPDU of the Collect that holds it; rt.timer: the
\* deadline of each group ("off", "armed", "fired": its function was started);
\* rt.cbs: the invocations of the expiry callback under way; rt.calls:
\* history, the arguments of the invocations so far.
NoKey == <<"", 0, 0>>
Free == [who |-> "free", key |-> NoKey, i |-> 0]
NoRt == [mu |-> Free, cin |-> NoTpdu, timer |-> [k \in ExpiryKeys |-> "off"],
         cbs |-> <<>>, calls |-> <<>>]
ColIdle == pipes = {} /\ out = NoOut /\ fed = {} /\ emits = <<>> /\ rt = NoRt

\* The device right after New, with its callers, its closers and the modem free.
\* No SendSMSText is running, no codec function has been applied.
NoText == [pre |-> "", fill |-> "", n |-> 0, post |-> ""]
NoTx == [pc |-> "none", message |-> NoText, i |-> 0, sent |-> <<>>, err |-> "none"]
NoEnc == [f |-> "none"]
PduIdle == tx = NoTx /\ enc = NoEnc

Init == DevInit /\ SmsIdle /\ ColIdle /\ PduIdle

\* ---------------------------------------------------------------- SendCommand
\* A caller invokes SendCommand(text); its first statement is
\* if m.closed.Load() { return nil, "device closed" }
Invoke(c, text) ==
  /\ ~crashed /\ pc[c] \in {"idle", "done"} /\ nCalls < MaxCalls
  /\ \A d \in Callers : d < c => pc[d] # "idle"
  /\ arg' = [arg EXCEPT ![c] = IF closed THEN <<>> ELSE text]
  /\ responses' = [responses EXCEPT ![c] = <<>>]
  /\ nCalls' = nCalls + 1
  /\ afterClose' = [afterClose EXCEPT ![c] = \E k \in Closers : kpc[k] \in {"done", "donenil"}]
  /\ nWrites' = [nWrites EXCEPT ![c] = 0]
  /\ IF closed
     THEN /\ pc' = [pc EXCEPT ![c] = "done"]
          /\ result' = [result EXCEPT ![c] = [err |-> "closed", lines |-> <<>>]]
     ELSE /\ pc' = [pc EXCEPT ![c] = "lock"]
          /\ result' = [result EXCEPT ![c] = NoResult]
  /\ UNCHANGED <<flagVars, crashed, responseChan, cmd, mu, timer, writers, readVars, kpc>>

\* Mutant of Lock: the mutex is not waited for.
Lock_NoMutex(c) ==
  /\ ~crashed /\ pc[c] = "lock"
  /\ mu' = c
  /\ pc' = [pc EXCEPT ![c] = "drain"]
  /\ UNCHANGED <<flagVars, crashed, responseChan, cmd, arg, responses, timer, result,
                 nCalls, afterClose, nWrites, writers, readVars, kpc>>

\* m.mu.Lock()
Lock(c) ==
  /\ ~crashed /\ pc[c] = "lock" /\ mu = None
  /\ mu' = c
  /\ pc' = [pc EXCEPT ![c] = "drain"]
  /\ UNCHANGED <<flagVars, crashed, responseChan, cmd, arg, responses, timer, result,
                 nCalls, afterClose, nWrites, writers, readVars, kpc>>

\* for len(m.responseChan) > 0 { <-m.responseChan }: one iteration, or the exit.
Drain(c) ==
  /\ ~crashed /\ pc[c] = "drain"
  /\ IF Len(responseChan) > 0
     THEN /\ responseChan' = Tail(responseChan)
          /\ UNCHANGED pc
     ELSE /\ pc' = [pc EXCEPT ![c] = "store"]
          /\ UNCHANGED responseChan
  /\ UNCHANGED <<flagVars, crashed, cmd, mu, arg, responses, timer, result,
                 nCalls, afterClose, nWrites, writers, readVars, kpc>>

\* if !hasTerminator(cmd) { cmd = cmd + "\r\n" }; m.cmd.Store(cmd)
StoreCmd(c) ==
  /\ ~crashed /\ pc[c] = "store"
  /\ LET full == IF hasTerminator(arg[c]) THEN arg[c] ELSE arg[c] \o <<"\r", "\n">>
     IN  /\ arg' = [arg EXCEPT ![c] = full]
         /\ cmd' = [ok |-> TRUE, s |-> full]
  /\ pc' = [pc EXCEPT ![c] = "wcheck"]
  /\ UNCHANGED <<flagVars, crashed, responseChan, mu, responses, timer, result,
                 nCalls, afterClose, nWrites, writers, readVars, kpc>>

\* writeString: if m.closed.Load() { return "device closed" }
WriteCheck(c) ==
  /\ ~crashed /\ pc[c] = "wcheck"
  /\ IF closed
     THEN /\ pc' = [pc EXCEPT ![c] = "unstore"]
          /\ result' = [result EXCEPT ![c] = [err |-> "closed", lines |-> <<>>]]
     ELSE /\ pc' = [pc EXCEPT ![c] = "write"]
          /\ UNCHANGED result
  /\ UNCHANGED <<flagVars, crashed, responseChan, cmd, mu, arg, responses, timer,
                 nCalls, afterClose, nWrites, writers, readVars, kpc>>

\* writeString: m.port.Write([]byte(data)) is entered.
WriteBegin(c) ==
  /\ ~crashed /\ pc[c] = "write"
  /\ writers' = writers \cup {c}
  /\ nWrites' = [nWrites EXCEPT ![c] = @ + 1]
  /\ pc' = [pc EXCEPT ![c] = "writing"]
  /\ UNCHANGED <<flagVars, crashed, responseChan, cmd, mu, arg, responses, timer, result,
                 nCalls, afterClose, readVars, kpc>>

\* Mutant of WriteEnd: the byte count port.Write returns is not compared with
\* the length of the command.
WriteEnd_ShortIsOk(c, outcome) ==
  /\ ~crashed /\ pc[c] = "writing"
  /\ writers' = writers \ {c}
  /\ IF outcome \in {"ok", "short"}
     THEN /\ pc' = [pc EXCEPT ![c] = "await"]
          /\ responses' = [responses EXCEPT ![c] = <<>>]
          /\ timer' = [timer EXCEPT ![c] = FALSE]
          /\ UNCHANGED result
     ELSE /\ pc' = [pc EXCEPT ![c] = "unstore"]
          /\ result' = [result EXCEPT ![c] = [err |-> "write", lines |-> <<>>]]
          /\ UNCHANGED <<responses, timer>>
  /\ UNCHANGED <<flagVars, crashed, responseChan, cmd, mu, arg,
                 nCalls, afterClose, nWrites, readVars, kpc>>

\* writeString: port.Write returns; on success readResponse starts: responses is
\* nil and time.After(m.timeout) is armed.
WriteEnd(c, outcome) ==
  /\ ~crashed /\ pc[c] = "writing"
  /\ writers' = writers \ {c}
  /\ IF outcome = "ok"
     THEN /\ pc' = [pc EXCEPT ![c] = "await"]
          /\ responses' = [responses EXCEPT ![c] = <<>>]
          /\ timer' = [timer EXCEPT ![c] = FALSE]
          /\ UNCHANGED result
     ELSE /\ pc' = [pc EXCEPT ![c] = "unstore"]
          /\ result' = [result EXCEPT ![c] =
                          [err |-> IF outcome = "short" THEN "incomplete" ELSE "write",
                           lines |-> <<>>]]
          /\ UNCHANGED <<responses, timer>>
  /\ UNCHANGED <<flagVars, crashed, responseChan, cmd, mu, arg,
                 nCalls, afterClose, nWrites, readVars, kpc>>

\* The deadline of the waiting caller elapses: its time.After channel is ready.
Tick(c) ==
  /\ ~crashed /\ pc[c] = "await" /\ ~timer[c]
  /\ timer' = [timer EXCEPT ![c] = TRUE]
  /\ UNCHANGED <<flagVars, crashed, responseChan, cmd, mu, pc, arg, responses, result,
                 nCalls, afterClose, nWrites, writers, readVars, kpc>>

\* Mutant of RecvLine: the line is put in front of the lines collected so far.
RecvLine_Prepend(c) ==
  /\ ~crashed /\ pc[c] = "await" /\ responseChan # <<>>
  /\ LET line == Head(responseChan)
         got == <<line>> \o responses[c]
     IN  /\ responseChan' = Tail(responseChan)
         /\ responses' = [responses EXCEPT ![c] = got]
         /\ IF IsFinal(line.txt)
            THEN /\ pc' = [pc EXCEPT ![c] = "unstore"]
                 /\ result' = [result EXCEPT ![c] = [err |-> "nil", lines |-> got]]
            ELSE UNCHANGED <<pc, result>>
  /\ UNCHANGED <<flagVars, crashed, cmd, mu, arg, timer,
                 nCalls, afterClose, nWrites, writers, readVars, kpc>>

\* Mutant of RecvLine: the line is read but left on the channel.
RecvLine_Peek(c) ==
  /\ ~crashed /\ pc[c] = "await" /\ responseChan # <<>>
  /\ LET line == Head(responseChan)
         got == Append(responses[c], line)
     IN  /\ responses' = [responses EXCEPT ![c] = got]
         /\ IF IsFinal(line.txt)
            THEN /\ pc' = [pc EXCEPT ![c] = "unstore"]
                 /\ result' = [result EXCEPT ![c] = [err |-> "nil", lines |-> got]]
            ELSE UNCHANGED <<pc, result>>
  /\ UNCHANGED <<flagVars, crashed, responseChan, cmd, mu, arg, timer,
                 nCalls, afterClose, nWrites, writers, readVars, kpc>>

\* readResponse, case line, ok := <-m.responseChan with ok true: append the line,
\* return when it is final.
RecvLine(c) ==
  /\ ~crashed /\ pc[c] = "await" /\ responseChan # <<>>
  /\ LET line == Head(responseChan)
         got == Append(responses[c], line)
     IN  /\ responseChan' = Tail(responseChan)
         /\ responses' = [responses EXCEPT ![c] = got]
         /\ IF IsFinal(line.txt)
            THEN /\ pc' = [pc EXCEPT ![c] = "unstore"]
                 /\ result' = [result EXCEPT ![c] = [err |-> "nil", lines |-> got]]
            ELSE UNCHANGED <<pc, result>>
  /\ UNCHANGED <<flagVars, crashed, cmd, mu, arg, timer,
                 nCalls, afterClose, nWrites, writers, readVars, kpc>>

\* Mutant of RecvClosed: the closed channel is reported as a timeout.
RecvClosed_AsTimeout(c) ==
  /\ ~crashed /\ pc[c] = "await" /\ responseChan = <<>> /\ chanClosed
  /\ pc' = [pc EXCEPT ![c] = "unstore"]
  /\ result' = [result EXCEPT ![c] = [err |-> "timeout", lines |-> responses[c]]]
  /\ UNCHANGED <<flagVars, crashed, responseChan, cmd, mu, arg, responses, timer,
                 nCalls, afterClose, nWrites, writers, readVars, kpc>>

\* readResponse, case line, ok := <-m.responseChan with ok false (the channel is
\* closed and its buffer is empty): return responses, "device closed".
RecvClosed(c) ==
  /\ ~crashed /\ pc[c] = "await" /\ responseChan = <<>> /\ chanClosed
  /\ pc' = [pc EXCEPT ![c] = "unstore"]
  /\ result' = [result EXCEPT ![c] = [err |-> "closed", lines |-> responses[c]]]
  /\ UNCHANGED <<flagVars, crashed, responseChan, cmd, mu, arg, responses, timer,
                 nCalls, afterClose, nWrites, writers, readVars, kpc>>

\* Mutant of Timeout: the lines received so far are not returned.
Timeout_DropLines(c) ==
  /\ ~crashed /\ pc[c] = "await" /\ timer[c]
  /\ pc' = [pc EXCEPT ![c] = "unstore"]
  /\ result' = [result EXCEPT ![c] = [err |-> "timeout", lines |-> <<>>]]
  /\ UNCHANGED <<flagVars, crashed, responseChan, cmd, mu, arg, responses, timer,
                 nCalls, afterClose, nWrites, writers, readVars, kpc>>

\* readResponse, case <-timeout: return responses, "command timeout".
Timeout(c) ==
  /\ ~crashed /\ pc[c] = "await" /\ timer[c]
  /\ pc' = [pc EXCEPT ![c] = "unstore"]
  /\ result' = [result EXCEPT ![c] = [err |-> "timeout", lines |-> responses[c]]]
  /\ UNCHANGED <<flagVars, crashed, responseChan, cmd, mu, arg, responses, timer,
                 nCalls, afterClose, nWrites, writers, readVars, kpc>>

\* Mutant of Unstore: the deferred m.cmd.Store("") is left out.
Unstore_KeepCmd(c) ==
  /\ ~crashed /\ pc[c] = "unstore"
  /\ pc' = [pc EXCEPT ![c] = "unlock"]
  /\ UNCHANGED <<flagVars, crashed, responseChan, cmd, mu, arg, responses, timer, result,
                 nCalls, afterClose, nWrites, writers, readVars, kpc>>

\* defer m.cmd.Store("")
Unstore(c) ==
  /\ ~crashed /\ pc[c] = "unstore"
  /\ cmd' = [ok |-> TRUE, s |-> <<>>]
  /\ pc' = [pc EXCEPT ![c] = "unlock"]
  /\ UNCHANGED <<flagVars, crashed, responseChan, mu, arg, responses, timer, result,
                 nCalls, afterClose, nWrites, writers, readVars, kpc>>

\* defer m.mu.Unlock(), and SendCommand returns to its caller, which takes the
\* lines: the locals of the call are gone, the error it returned is remembered.
Unlock(c) ==
  /\ ~crashed /\ pc[c] = "unlock"
  /\ mu' = None
  /\ pc' = [pc EXCEPT ![c] = "done"]
  /\ responses' = [responses EXCEPT ![c] = <<>>]
  /\ arg' = [arg EXCEPT ![c] = <<>>]
  /\ timer' = [timer EXCEPT ![c] = FALSE]
  /\ result' = [result EXCEPT ![c].lines = <<>>]
  /\ UNCHANGED <<flagVars, crashed, responseChan, cmd,
                 nCalls, afterClose, nWrites, writers, readVars, kpc>>

\* ---------------------------------------------------------------- readAndDispatch
\* Top of the loop: if m.closed.Load() { return }. The line of the previous
\* iteration is out of scope.
ReaderTop ==
  /\ ~crashed /\ rpc = "top"
  /\ rpc' = IF closed THEN "exit" ELSE "read"
  /\ rline' = NoLine
  /\ fate' = NoFate
  /\ rerr' = "nil"
  /\ UNCHANGED <<flagVars, crashed, responseChan, cmd, mu, callVars, nRead, nUrc, kpc>>

\* reader.ReadString('\n') returns a line; line = strings.TrimSpace(line); an
\* empty line goes back to the top of the loop.
ReaderRead(raw) ==
  /\ ~crashed /\ rpc = "read"
  /\ LET line == TrimSpace(raw)
     IN  IF line = <<>>
         THEN /\ rpc' = "top"
              /\ UNCHANGED <<rline, nRead, fate>>
         ELSE /\ nRead < MaxLines
              /\ nRead' = nRead + 1
              /\ rline' = [id |-> nRead + 1, txt |-> line]
              /\ fate' = [NoFate EXCEPT !.aw = \E c \in Callers : pc[c] = "await"]
              /\ rpc' = "classify"
  /\ UNCHANGED <<flagVars, crashed, responseChan, cmd, mu, callVars, nUrc, rerr, kpc>>

\* reader.ReadString returns an error (io.EOF or another): the other one is
\* logged, then time.Sleep(m.timeout / 2) and continue, for both.
ReaderReadError(e) ==
  /\ ~crashed /\ rpc = "read"
  /\ rerr' = e
  /\ rpc' = "top"
  /\ UNCHANGED <<flagVars, crashed, responseChan, cmd, mu, callVars, rline, nRead, fate, nUrc, kpc>>

\* cmd := m.cmd.Load().(string) panics when nothing was stored yet (Load returns
\* nil); a notification is handed to a new goroutine running m.urcHandler.
ReaderClassify ==
  /\ ~crashed /\ rpc = "classify"
  /\ IF ~cmd.ok
     THEN /\ crashed' = TRUE
          /\ rpc' = "panic"
          /\ UNCHANGED <<fate, nUrc>>
     ELSE /\ UNCHANGED crashed
          /\ IF IsNotification(rline.txt, cmd.s)
             THEN /\ fate' = [fate EXCEPT !.handled = @ + 1]
                  /\ nUrc' = nUrc + 1
                  /\ rpc' = "top"
             ELSE /\ rpc' = "send"
                  /\ UNCHANGED <<fate, nUrc>>
  /\ UNCHANGED <<flagVars, responseChan, cmd, mu, callVars, rline, nRead, rerr, kpc>>

\* select { case m.responseChan <- line: ...; default: discard }: a send on a
\* closed channel panics; a full channel takes the default branch.
ReaderSend ==
  /\ ~crashed /\ rpc = "send"
  /\ IF chanClosed
     THEN /\ crashed' = TRUE
          /\ rpc' = "panic"
          /\ UNCHANGED <<responseChan, fate>>
     ELSE /\ UNCHANGED crashed
          /\ rpc' = "top"
          /\ IF Len(responseChan) < ChanCap
             THEN /\ responseChan' = Append(responseChan, rline)
                  /\ fate' = [fate EXCEPT !.queued = @ + 1]
             ELSE /\ fate' = [fate EXCEPT !.dropped = @ + 1]
                  /\ UNCHANGED responseChan
  /\ UNCHANGED <<flagVars, cmd, mu, callVars, rline, nRead, nUrc, rerr, kpc>>

\* ---------------------------------------------------------------- Close
\* The caller waiting in readResponse, None when there is none.
Waiter ==
  IF \E c \in Callers : pc[c] = "await"
  THEN CHOOSE c \in Callers : pc[c] = "await" ELSE None

\* Mutant of CloseSwap: the flag is read (Load) but never set.
CloseSwap_FlagUnset(k) ==
  /\ ~crashed /\ kpc[k] = "idle"
  /\ \A j \in Closers : j < k => kpc[j] # "idle"
  /\ kpc' = [kpc EXCEPT ![k] = IF closed THEN "donenil" ELSE "closeChan"]
  /\ closeWhileAwait' = IF closed THEN closeWhileAwait ELSE Waiter
  /\ UNCHANGED <<closed, chanClosed, nChanClose, nPortClose, crashed, responseChan,
                 cmd, mu, callVars, readVars>>

\* Mutant of CloseSwap: the flag is set but its old value is not looked at.
CloseSwap_NotAtomic(k) ==
  /\ ~crashed /\ kpc[k] = "idle"
  /\ \A j \in Closers : j < k => kpc[j] # "idle"
  /\ closed' = TRUE
  /\ kpc' = [kpc EXCEPT ![k] = "closeChan"]
  /\ closeWhileAwait' = IF closed THEN closeWhileAwait ELSE Waiter
  /\ UNCHANGED <<chanClosed, nChanClose, nPortClose, crashed, responseChan,
                 cmd, mu, callVars, readVars>>

\* if m.closed.Swap(true) { return nil }: "donenil" is that return.
CloseSwap(k) ==
  /\ ~crashed /\ kpc[k] = "idle"
  /\ \A j \in Closers : j < k => kpc[j] # "idle"
  /\ closed' = TRUE
  /\ kpc' = [kpc EXCEPT ![k] = IF closed THEN "donenil" ELSE "closeChan"]
  /\ closeWhileAwait' = IF closed THEN closeWhileAwait ELSE Waiter
  /\ UNCHANGED <<chanClosed, nChanClose, nPortClose, crashed, responseChan,
                 cmd, mu, callVars, readVars>>

\* close(m.responseChan); closing a closed channel panics.
CloseChan(k) ==
  /\ ~crashed /\ kpc[k] = "closeChan"
  /\ IF chanClosed
     THEN /\ crashed' = TRUE
          /\ kpc' = [kpc EXCEPT ![k] = "panic"]
          /\ UNCHANGED <<chanClosed, nChanClose>>
     ELSE /\ chanClosed' = TRUE
          /\ nChanClose' = nChanClose + 1
          /\ kpc' = [kpc EXCEPT ![k] = "closePort"]
          /\ UNCHANGED crashed
  /\ UNCHANGED <<closed, nPortClose, closeWhileAwait, responseChan, cmd, mu, callVars, readVars>>

\* return m.port.Close()
ClosePort(k) ==
  /\ ~crashed /\ kpc[k] = "closePort"
  /\ nPortClose' = nPortClose + 1
  /\ kpc' = [kpc EXCEPT ![k] = "done"]
  /\ UNCHANGED <<closed, chanClosed, nChanClose, closeWhileAwait, crashed, responseChan,
                 cmd, mu, callVars, readVars>>

\* ---------------------------------------------------------------- specification
CallerStep(c) ==
  \/ Lock(c) \/ Drain(c) \/ StoreCmd(c) \/ WriteCheck(c)
  \/ WriteBegin(c) \/ (\E o \in WriteOutcomes : WriteEnd(c, o))
  \/ RecvLine(c) \/ RecvClosed(c) \/ Timeout(c) \/ Unstore(c) \/ Unlock(c)

ReaderStep == ReaderTop \/ ReaderClassify \/ ReaderSend

CloserStep(k) == CloseSwap(k) \/ CloseChan(k) \/ ClosePort(k)

\* Every step of the device leaves SendSmsPdu's and the collector's state alone.
Next ==
  \/ \E c \in Callers : \E t \in Commands : Invoke(c, t) /\ UNCHANGED <<smsVars, colVars, pduVars>>
  \/ \E c \in Callers : Lock(c) /\ UNCHANGED <<smsVars, colVars, pduVars>>
  \/ \E c \in Callers : Drain(c) /\ UNCHANGED <<smsVars, colVars, pduVars>>
  \/ \E c \in Callers : StoreCmd(c) /\ UNCHANGED <<smsVars, colVars, pduVars>>
  \/ \E c \in Callers : WriteCheck(c) /\ UNCHANGED <<smsVars, colVars, pduVars>>
  \/ \E c \in Callers : WriteBegin(c) /\ UNCHANGED <<smsVars, colVars, pduVars>>
  \/ \E c \in Callers : \E o \in WriteOutcomes : WriteEnd(c, o) /\ UNCHANGED <<smsVars, colVars, pduVars>>
  \/ \E c \in Callers : Tick(c) /\ UNCHANGED <<smsVars, colVars, pduVars>>
  \/ \E c \in Callers : RecvLine(c) /\ UNCHANGED <<smsVars, colVars, pduVars>>
  \/ \E c \in Callers : RecvClosed(c) /\ UNCHANGED <<smsVars, colVars, pduVars>>
  \/ \E c \in Callers : Timeout(c) /\ UNCHANGED <<smsVars, colVars, pduVars>>
  \/ \E c \in Callers : Unstore(c) /\ UNCHANGED <<smsVars, colVars, pduVars>>
  \/ \E c \in Callers : Unlock(c) /\ UNCHANGED <<smsVars, colVars, pduVars>>
  \/ \E raw \in ModemLines : ReaderRead(raw) /\ UNCHANGED <<smsVars, colVars, pduVars>>
  \/ \E e \in ReadErrors : ReaderReadError(e) /\ UNCHANGED <<smsVars, colVars, pduVars>>
  \/ ReaderTop /\ UNCHANGED <<smsVars, colVars, pduVars>>
  \/ ReaderClassify /\ UNCHANGED <<smsVars, colVars, pduVars>>
  \/ ReaderSend /\ UNCHANGED <<smsVars, colVars, pduVars>>
  \/ \E k \in Closers : CloseSwap(k) /\ UNCHANGED <<smsVars, colVars, pduVars>>
  \/ \E k \in Closers : CloseChan(k) /\ UNCHANGED <<smsVars, colVars, pduVars>>
  \/ \E k \in Closers : ClosePort(k) /\ UNCHANGED <<smsVars, colVars, pduVars>>

Spec == Init /\ [][Next]_vars

\* Device.IsOpen
IsOpen == ~closed

\* SendCommandExpect: the error it returns for what SendCommand returned.
SendCommandExpect(res, expected) ==
  IF res.err # "nil" THEN res.err
  ELSE IF \E i \in 1..Len(res.lines) : Contains(res.lines[i].txt, expected)
       THEN "nil" ELSE "not found"

\* SimpleQuery: the first line that does not start with AT.
SimpleQuery(res) ==
  LET hits == {i \in 1..Len(res.lines) : ~HasPrefix(res.lines[i].txt, <<"A", "T">>)}
  IN  IF res.err # "nil" THEN [line |-> <<>>, err |-> res.err]
      ELSE IF hits = {} THEN [line |-> <<>>, err |-> "no info"]
      ELSE [line |-> res.lines[CHOOSE i \in hits : \A j \in hits : i <= j].txt,
            err |-> "nil"]

\* The scheduler runs every goroutine that can take a step, the deadline of a
\* waiting caller elapses, and sync.Mutex hands the lock to a waiting caller
\* (starvation mode). The modem and the callers of SendCommand and Close are free.
Fairness ==
  /\ \A c \in Callers :
       /\ WF_vars(CallerStep(c) /\ UNCHANGED <<smsVars, colVars, pduVars>>)
       /\ WF_vars(Tick(c) /\ UNCHANGED <<smsVars, colVars, pduVars>>)
       /\ SF_vars(Lock(c) /\ UNCHANGED <<smsVars, colVars, pduVars>>)
  /\ WF_vars(ReaderStep /\ UNCHANGED <<smsVars, colVars, pduVars>>)
  /\ \A k \in Closers :
       WF_vars((CloseChan(k) \/ ClosePort(k)) /\ UNCHANGED <<smsVars, colVars, pduVars>>)

FairSpec == Spec /\ Fairness

\* ---------------------------------------------------------------- the classifier
\* The lines of the classifier runs: one line per URC prefix of the default set,
\* the prefix followed by ": 1" (+CREG: 1, +CME ERROR: 1, NO CARRIER: 1, ...).
ClassifyLines ==
  {GetAllNotifications[i] \o <<":", " ", "1">> : i \in 1..Len(GetAllNotifications)}

\* The commands of the classifier runs: AT, and the query AT<prefix>? of every
\* URC prefix that starts with "+" (AT+CREG?, AT+CMT?, AT+CMTI?, ...).
ClassifyCommands ==
  { <<"A", "T">> }
  \cup {<<"A", "T">> \o GetAllNotifications[i] \o <<"?">> :
          i \in {j \in 1..Len(GetAllNotifications) : Head(GetAllNotifications[j]) = "+"}}

\* A data line that the reader queued earlier during the command in flight.
QueuedLine == [id |-> 1, txt |-> <<"1", "2", "3">>]

\* The reader has read and trimmed a line and is about to classify it, while
\* caller 1 waits in readResponse for the response to a command (t # "") or
\* after caller 1's SendCommand has returned and no command is in flight
\* (t = ""); the response channel is empty or holds one earlier line.
ClassifyInit ==
  /\ closed = FALSE /\ chanClosed = FALSE /\ nChanClose = 0 /\ nPortClose = 0
  /\ closeWhileAwait = None
  /\ crashed = FALSE
  /\ \E t \in ClassifyCommands \cup {<<>>} :
       IF t = <<>>
       THEN /\ cmd = [ok |-> TRUE, s |-> <<>>]
            /\ mu = None
            /\ pc = [c \in Callers |-> IF c = 1 THEN "done" ELSE "idle"]
            /\ arg = [c \in Callers |-> <<>>]
            /\ result = [c \in Callers |->
                           IF c = 1 THEN [err |-> "nil", lines |-> <<>>] ELSE NoResult]
            /\ responseChan = <<>>
       ELSE /\ cmd = [ok |-> TRUE, s |-> t \o <<"\r", "\n">>]
            /\ mu = 1
            /\ pc = [c \in Callers |-> IF c = 1 THEN "await" ELSE "idle"]
            /\ arg = [c \in Callers |-> IF c = 1 THEN t \o <<"\r", "\n">> ELSE <<>>]
            /\ result = [c \in Callers |-> NoResult]
            /\ responseChan \in {<<>>, <<QueuedLine>>}
  /\ responses = [c \in Callers |-> <<>>]
  /\ timer = [c \in Callers |-> FALSE]
  /\ nCalls = 1
  /\ afterClose = [c \in Callers |-> FALSE]
  /\ nWrites = [c \in Callers |-> IF c = 1 THEN 1 ELSE 0]
  /\ writers = {}
  /\ rpc = "classify" /\ rerr = "nil"
  /\ \E l \in ClassifyLines : rline = [id |-> 2, txt |-> l]
  /\ nRead = 2
  /\ fate = [NoFate EXCEPT !.aw = (pc[1] = "await")]
  /\ nUrc = 0
  /\ kpc = [k \in Closers |-> "idle"]
  /\ SmsIdle /\ ColIdle /\ PduIdle

\* The reader routes the line, the waiting caller receives what is queued (its
\* deadline does not elapse meanwhile), Close may be called once.
ClassifyNext ==
  \/ ReaderClassify /\ UNCHANGED <<smsVars, colVars, pduVars>>
  \/ ReaderSend /\ UNCHANGED <<smsVars, colVars, pduVars>>
  \/ ReaderTop /\ UNCHANGED <<smsVars, colVars, pduVars>>
  \/ RecvLine(1) /\ UNCHANGED <<smsVars, colVars, pduVars>>
  \/ RecvClosed(1) /\ UNCHANGED <<smsVars, colVars, pduVars>>
  \/ Unstore(1) /\ UNCHANGED <<smsVars, colVars, pduVars>>
  \/ Unlock(1) /\ UNCHANGED <<smsVars, colVars, pduVars>>
  \/ CloseSwap(1) /\ UNCHANGED <<smsVars, colVars, pduVars>>
  \/ CloseChan(1) /\ UNCHANGED <<smsVars, colVars, pduVars>>
  \/ ClosePort(1) /\ UNCHANGED <<smsVars, colVars, pduVars>>

ClassifySpec == ClassifyInit /\ [][ClassifyNext]_vars

\* ---------------------------------------------------------------- URC handlers
\* A SendCommand has returned (the current command is ""), no command is in
\* progress, the reader is at the top of its loop and the modem is free.
UrcInit ==
  /\ closed = FALSE /\ chanClosed = FALSE /\ nChanClose = 0 /\ nPortClose = 0
  /\ closeWhileAwait = None
  /\ crashed = FALSE
  /\ responseChan = <<>>
  /\ cmd = [ok |-> TRUE, s |-> <<>>]
  /\ mu = None
  /\ pc = [c \in Callers |-> IF c = 1 THEN "done" ELSE "idle"]
  /\ arg = [c \in Callers |-> <<>>]
  /\ responses = [c \in Callers |-> <<>>]
  /\ timer = [c \in Callers |-> FALSE]
  /\ result = [c \in Callers |-> IF c = 1 THEN [err |-> "nil", lines |-> <<>>] ELSE NoResult]
  /\ nCalls = 1
  /\ afterClose = [c \in Callers |-> FALSE]
  /\ nWrites = [c \in Callers |-> IF c = 1 THEN 1 ELSE 0]
  /\ writers = {}
  /\ rpc = "top" /\ rline = NoLine /\ nRead = 0 /\ fate = NoFate /\ nUrc = 0
  /\ rerr = "nil"
  /\ kpc = [k \in Closers |-> "idle"]
  /\ SmsIdle /\ ColIdle /\ PduIdle

\* The reader classifies its line; for a notification, go m.urcHandler(
\* parseParam(line)) creates a goroutine.
UrcDispatch ==
  /\ ReaderClassify
  /\ urcs' = IF nUrc' > nUrc THEN [urcs EXCEPT !.created = Append(@, rline.id)]
             ELSE urcs
  /\ UNCHANGED <<sms, events, timeout, colVars, pduVars>>

InSeq(x, s) == \E i \in 1..Len(s) : s[i] = x

\* The scheduler runs a created goroutine: the handler invocation for its line
\* starts. Go does not order the goroutines that are ready to run.
HandlerStart(id) ==
  /\ ~crashed
  /\ InSeq(id, urcs.created) /\ ~InSeq(id, urcs.started)
  /\ urcs' = [urcs EXCEPT !.started = Append(@, id)]
  /\ UNCHANGED <<devVars, sms, events, timeout, colVars, pduVars>>

UrcNext ==
  \/ ReaderTop /\ UNCHANGED <<smsVars, colVars, pduVars>>
  \/ \E raw \in ModemLines : ReaderRead(raw) /\ UNCHANGED <<smsVars, colVars, pduVars>>
  \/ \E e \in ReadErrors : ReaderReadError(e) /\ UNCHANGED <<smsVars, colVars, pduVars>>
  \/ UrcDispatch
  \/ ReaderSend /\ UNCHANGED <<smsVars, colVars, pduVars>>
  \/ \E id \in 1..MaxLines : HandlerStart(id)

UrcSpec == UrcInit /\ [][UrcNext]_vars

\* ---------------------------------------------------------------- terminators
\* The command texts of the terminator runs: without a terminator, with each of
\* the five at the end, empty, and with terminators only inside.
TerminatorTexts ==
  { <<>>,
    <<"A", "T">>,
    <<"A", "T", "\r">>,
    <<"A", "T", "\n">>,
    <<"A", "T", "\r", "\n">>,
    <<"A", "T", "SUB">>,
    <<"A", "T", "ESC">>,
    <<"A", "\r", "T">>,
    <<"A", "T", "\n", "\r">>,
    <<"SUB", "A", "T", "ESC", "0">> }

\* One goroutine calls SendCommand with these texts, one call after the other;
\* the modem is silent.
TerminatorNext ==
  \/ \E t \in TerminatorTexts : Invoke(1, t) /\ UNCHANGED <<smsVars, colVars, pduVars>>
  \/ Lock(1) /\ UNCHANGED <<smsVars, colVars, pduVars>>
  \/ Drain(1) /\ UNCHANGED <<smsVars, colVars, pduVars>>
  \/ StoreCmd(1) /\ UNCHANGED <<smsVars, colVars, pduVars>>
  \/ WriteCheck(1) /\ UNCHANGED <<smsVars, colVars, pduVars>>
  \/ WriteBegin(1) /\ UNCHANGED <<smsVars, colVars, pduVars>>
  \/ \E o \in WriteOutcomes : WriteEnd(1, o) /\ UNCHANGED <<smsVars, colVars, pduVars>>
  \/ Tick(1) /\ UNCHANGED <<smsVars, colVars, pduVars>>
  \/ Timeout(1) /\ UNCHANGED <<smsVars, colVars, pduVars>>
  \/ Unstore(1) /\ UNCHANGED <<smsVars, colVars, pduVars>>
  \/ Unlock(1) /\ UNCHANGED <<smsVars, colVars, pduVars>>

TerminatorSpec == Init /\ [][TerminatorNext]_vars

\* ---------------------------------------------------------------- SendSmsPdu
\* The TPDUs of the message, in the order of the slice sms.Encode returned.
Segments == 1..MaxSegments

Digit(i) == <<"0", "1", "2", "3", "4", "5", "6", "7", "8", "9">>[i + 1]

\* fmt.Sprintf("%s=%d", m.commands.SendSms, len(tpduBytes)): here the TPDU of
\* segment i has 10 + i octets.
CmgsText(i) == <<"A", "T", "+", "C", "M", "G", "S", "=", "1", Digit(i)>>

\* pduHex + "\x1A": the hex string of the PDU of segment i (no SMSC: it starts
\* with 00; its other digits stand for the TPDU), then Ctrl+Z.
PduText(i) == <<"0", "0", "0", Digit(i), "SUB">>

\* What the modem sends during a SendSmsPdu: the prompt, the results, the
\* message reference of a sent segment, an error, and an information line
\* that holds the character ">".
SmsLines ==
  { <<">", " ", "\r", "\n">>,
    <<"a", ">", "b", "\r", "\n">>,
    <<"O", "K", "\r", "\n">>,
    <<"E", "R", "R", "O", "R", "\r", "\n">>,
    <<"+", "C", "M", "G", "S", ":", " ", "5", "\r", "\n">>,
    <<"+", "C", "M", "S", " ", "E", "R", "R", "O", "R", ":", " ", "3", "0", "4", "\r", "\n">> }

\* SendSmsPdu has reached segment s of its loop: it is about to call
\* SendCommandExpect(cmd, ">"). For the first segment the device is as after
\* New; for a later one the commands of the segments before it have returned,
\* so the current command is "".
SmsInit ==
  /\ closed = FALSE /\ chanClosed = FALSE /\ nChanClose = 0 /\ nPortClose = 0
  /\ closeWhileAwait = None
  /\ crashed = FALSE
  /\ responseChan = <<>>
  /\ mu = None
  /\ pc = [c \in Callers |-> "idle"]
  /\ arg = [c \in Callers |-> <<>>]
  /\ responses = [c \in Callers |-> <<>>]
  /\ timer = [c \in Callers |-> FALSE]
  /\ result = [c \in Callers |-> NoResult]
  /\ nCalls = 0
  /\ afterClose = [c \in Callers |-> FALSE]
  /\ nWrites = [c \in Callers |-> 0]
  /\ writers = {}
  /\ rpc = "top" /\ rline = NoLine /\ nRead = 0 /\ fate = NoFate /\ nUrc = 0
  /\ rerr = "nil"
  /\ kpc = [k \in Closers |-> "idle"]
  /\ ColIdle /\ PduIdle
  /\ events = <<>> /\ urcs = NoUrcs
  /\ timeout = [dev |-> SmsTimeout, rd |-> ConfigTimeout, armed |-> NoArmed]
  /\ \E s \in Segments :
       /\ sms = [pc |-> "cmgs", seg |-> s, err |-> "none"]
       /\ cmd = [ok |-> s > 1, s |-> <<>>]

\* defer func() { m.timeout = rdTimeout }(): what Device.timeout is after a step
\* of SendSmsPdu, which returns with that step or goes on.
Restored(returns) ==
  IF returns THEN [timeout EXCEPT !.dev = timeout.rd] ELSE timeout

\* SendSmsPdu calls SendCommand, through SendCommandExpect for the AT+CMGS
\* command and directly for the payload; a closed device makes it return at once.
SmsCall ==
  /\ sms.pc \in {"cmgs", "pdu"}
  /\ Invoke(1, IF sms.pc = "cmgs" THEN CmgsText(sms.seg) ELSE PduText(sms.seg))
  /\ sms' = IF closed THEN [sms EXCEPT !.pc = "ret", !.err = "closed"]
            ELSE [sms EXCEPT !.pc = IF sms.pc = "cmgs" THEN "cmgswait" ELSE "pduwait"]
  /\ timeout' = Restored(sms'.pc = "ret")
  /\ UNCHANGED <<events, urcs, colVars, pduVars>>

\* The SendCommand of SendSmsPdu hands its command to port.Write.
SmsWrite ==
  /\ WriteBegin(1)
  /\ events' = Append(events, [e |-> "write", data |-> arg[1], err |-> "none", lines |-> <<>>])
  /\ UNCHANGED <<sms, timeout, urcs, colVars, pduVars>>

\* The SendCommand of SendSmsPdu returns. After the AT+CMGS command,
\* SendCommandExpect looks for ">" in the lines: an error ends SendSmsPdu,
\* otherwise the payload is next. After the payload, an error ends SendSmsPdu,
\* otherwise the loop goes on with the next TPDU or SendSmsPdu returns nil.
SmsReturn ==
  /\ Unlock(1)
  /\ events' = Append(events, [e |-> "return", data |-> <<>>, err |-> result[1].err,
                               lines |-> [i \in 1..Len(result[1].lines) |-> result[1].lines[i].txt]])
  /\ LET err == IF sms.pc = "cmgswait" THEN SendCommandExpect(result[1], <<">">>)
                ELSE result[1].err
     IN  sms' = IF err # "nil" THEN [sms EXCEPT !.pc = "ret", !.err = err]
                ELSE IF sms.pc = "cmgswait" THEN [sms EXCEPT !.pc = "pdu"]
                ELSE IF sms.seg < MaxSegments
                     THEN [sms EXCEPT !.pc = "cmgs", !.seg = @ + 1]
                     ELSE [sms EXCEPT !.pc = "ret", !.err = "nil"]
  /\ timeout' = Restored(sms'.pc = "ret")
  /\ UNCHANGED <<urcs, colVars, pduVars>>

SmsNext ==
  \/ SmsCall
  \/ SmsWrite
  \/ SmsReturn
  \/ Lock(1) /\ UNCHANGED <<smsVars, colVars, pduVars>>
  \/ Drain(1) /\ UNCHANGED <<smsVars, colVars, pduVars>>
  \/ StoreCmd(1) /\ UNCHANGED <<smsVars, colVars, pduVars>>
  \/ WriteCheck(1) /\ UNCHANGED <<smsVars, colVars, pduVars>>
  \/ \E o \in WriteOutcomes : WriteEnd(1, o) /\ UNCHANGED <<smsVars, colVars, pduVars>>
  \/ Tick(1) /\ UNCHANGED <<smsVars, colVars, pduVars>>
  \/ RecvLine(1) /\ UNCHANGED <<smsVars, colVars, pduVars>>
  \/ Timeout(1) /\ UNCHANGED <<smsVars, colVars, pduVars>>
  \/ Unstore(1) /\ UNCHANGED <<smsVars, colVars, pduVars>>
  \/ \E raw \in SmsLines : ReaderRead(raw) /\ UNCHANGED <<smsVars, colVars, pduVars>>
  \/ ReaderTop /\ UNCHANGED <<smsVars, colVars, pduVars>>
  \/ ReaderClassify /\ UNCHANGED <<smsVars, colVars, pduVars>>
  \/ ReaderSend /\ UNCHANGED <<smsVars, colVars, pduVars>>

SmsSpec == SmsInit /\ [][SmsNext]_vars

\* ---------------------------------------------------------------- SendSmsPdu and another caller
\* Caller 1 is the SendCommand of a SendSmsPdu, caller 2 a goroutine that calls
\* SendCommand on the same device. The AT+CMGS command of segment s has been
\* written and has returned with the prompt; SendSmsPdu is about to send the
\* payload. The history counters start here.
Others == Callers \ {1}

SharedInit ==
  /\ closed = FALSE /\ chanClosed = FALSE /\ nChanClose = 0 /\ nPortClose = 0
  /\ closeWhileAwait = None
  /\ crashed = FALSE
  /\ responseChan = <<>>
  /\ cmd = [ok |-> TRUE, s |-> <<>>]
  /\ mu = None
  /\ pc = [c \in Callers |-> IF c = 1 THEN "done" ELSE "idle"]
  /\ arg = [c \in Callers |-> <<>>]
  /\ responses = [c \in Callers |-> <<>>]
  /\ timer = [c \in Callers |-> FALSE]
  /\ result = [c \in Callers |->
                 IF c = 1 THEN [err |-> "nil", lines |-> <<[id |-> 0, txt |-> <<">">>]>>]
                 ELSE NoResult]
  /\ nCalls = 0
  /\ afterClose = [c \in Callers |-> FALSE]
  /\ nWrites = [c \in Callers |-> 0]
  /\ writers = {}
  /\ rpc = "top" /\ rline = NoLine /\ nRead = 0 /\ fate = NoFate /\ nUrc = 0
  /\ rerr = "nil"
  /\ kpc = [k \in Closers |-> "idle"]
  /\ ColIdle /\ PduIdle
  /\ events = <<>> /\ urcs = NoUrcs
  /\ timeout = [dev |-> SmsTimeout, rd |-> ConfigTimeout, armed |-> NoArmed]
  /\ \E s \in Segments : sms = [pc |-> "pdu", seg |-> s, err |-> "none"]

\* port.Write returns and readResponse starts: timeout := time.After(m.timeout)
\* reads Device.timeout as it is then.
readResponseArm(c, outcome) ==
  /\ WriteEnd(c, outcome)
  /\ timeout' = IF outcome = "ok" THEN [timeout EXCEPT !.armed[c] = timeout.dev]
                ELSE timeout
  /\ UNCHANGED <<sms, events, urcs, colVars, pduVars>>

SharedNext ==
  \/ SmsCall
  \/ SmsWrite
  \/ SmsReturn
  \/ \E c \in Others : \E t \in Commands : Invoke(c, t) /\ UNCHANGED <<smsVars, colVars, pduVars>>
  \/ \E c \in Others : WriteBegin(c) /\ UNCHANGED <<smsVars, colVars, pduVars>>
  \/ \E c \in Others : Unlock(c) /\ UNCHANGED <<smsVars, colVars, pduVars>>
  \/ \E c \in Callers : Lock(c) /\ UNCHANGED <<smsVars, colVars, pduVars>>
  \/ \E c \in Callers : Drain(c) /\ UNCHANGED <<smsVars, colVars, pduVars>>
  \/ \E c \in Callers : StoreCmd(c) /\ UNCHANGED <<smsVars, colVars, pduVars>>
  \/ \E c \in Callers : WriteCheck(c) /\ UNCHANGED <<smsVars, colVars, pduVars>>
  \/ \E c \in Callers : \E o \in WriteOutcomes : readResponseArm(c, o)
  \/ \E c \in Callers : Tick(c) /\ UNCHANGED <<smsVars, colVars, pduVars>>
  \/ \E c \in Callers : RecvLine(c) /\ UNCHANGED <<smsVars, colVars, pduVars>>
  \/ \E c \in Callers : Timeout(c) /\ UNCHANGED <<smsVars, colVars, pduVars>>
  \/ \E c \in Callers : Unstore(c) /\ UNCHANGED <<smsVars, colVars, pduVars>>
  \/ \E raw \in SmsLines : ReaderRead(raw) /\ UNCHANGED <<smsVars, colVars, pduVars>>
  \/ ReaderTop /\ UNCHANGED <<smsVars, colVars, pduVars>>
  \/ ReaderClassify /\ UNCHANGED <<smsVars, colVars, pduVars>>
  \/ ReaderSend /\ UNCHANGED <<smsVars, colVars, pduVars>>

SharedSpec == SharedInit /\ [][SharedNext]_vars

\* ---------------------------------------------------------------- Collector
\* The groups of concatenated messages in the store of the modem: an
\* originator, a reference and a number of segments each. Two share the
\* reference and the originator, two the reference and the number of segments.
Groups ==
  { [oa |-> "A", ref |-> 1, total |-> 2],
    [oa |-> "A", ref |-> 1, total |-> 3],
    [oa |-> "B", ref |-> 1, total |-> 2] }

\* The user data of a TPDU.
UserData == {"x", "y"}

\* The TPDUs sms.Unmarshal yields: the segments of the groups, and the
\* messages without a concatenation header (ConcatInfo: 0, 0, 0, false).
Tpdus ==
  UNION { { [oa |-> g.oa, ref |-> g.ref, total |-> g.total, seq |-> q, ud |-> u] :
              q \in 1..g.total, u \in UserData } : g \in Groups }
  \cup { [oa |-> "A", ref |-> 0, total |-> 0, seq |-> 0, ud |-> u] : u \in UserData }

\* The fourth result of ConcatInfo: the TPDU carries a concatenation header.
HasConcat(t) == t.total # 0

\* The key of the reassembly table.
Key(t) == <<t.oa, t.ref, t.total>>

\* The segments the table holds under a key.
Group(table, k) == {s \in table : HasConcat(s) /\ Key(s) = k}

\* The segments of a complete group as a list, by sequence number.
Ordered(g) == [i \in 1..Cardinality(g) |-> CHOOSE s \in g : s.seq = i]

\* Mutant of Collect: the group is returned when one segment is still missing.
Collect_OneShort(table, t) ==
  IF ~HasConcat(t) THEN [table |-> table, segs |-> <<t>>, err |-> "nil"]
  ELSE IF \E s \in Group(table, Key(t)) : s.seq = t.seq
       THEN [table |-> table, segs |-> <<>>, err |-> "DuplicateSegment"]
       ELSE LET g == Group(table, Key(t)) \cup {t}
            IN  IF Cardinality(g) >= t.total - 1
                THEN [table |-> table \ g,
                      segs |-> [i \in 1..Cardinality(g) |->
                                  CHOOSE s \in g :
                                    Cardinality({r \in g : r.seq < s.seq}) = i - 1],
                      err |-> "nil"]
                ELSE [table |-> table \cup {t}, segs |-> <<>>, err |-> "nil"]

\* Mutant of Collect: a message without concatenation header is kept in the table.
Collect_SingleStored(table, t) ==
  IF ~HasConcat(t) THEN [table |-> table \cup {t}, segs |-> <<t>>, err |-> "nil"]
  ELSE IF \E s \in Group(table, Key(t)) : s.seq = t.seq
       THEN [table |-> table, segs |-> <<>>, err |-> "DuplicateSegment"]
       ELSE LET g == Group(table, Key(t)) \cup {t}
            IN  IF Cardinality(g) = t.total
                THEN [table |-> table \ g, segs |-> Ordered(g), err |-> "nil"]
                ELSE [table |-> table \cup {t}, segs |-> <<>>, err |-> "nil"]

\* Mutant of Collect: a duplicate takes the place of the stored segment.
Collect_DupReplaces(table, t) ==
  IF ~HasConcat(t) THEN [table |-> table, segs |-> <<t>>, err |-> "nil"]
  ELSE IF \E s \in Group(table, Key(t)) : s.seq = t.seq
       THEN [table |-> (table \ {s \in Group(table, Key(t)) : s.seq = t.seq}) \cup {t},
             segs |-> <<>>, err |-> "DuplicateSegment"]
       ELSE LET g == Group(table, Key(t)) \cup {t}
            IN  IF Cardinality(g) = t.total
                THEN [table |-> table \ g, segs |-> Ordered(g), err |-> "nil"]
                ELSE [table |-> table \cup {t}, segs |-> <<>>, err |-> "nil"]

\* Collect: the table after the call, the segments and the error it returns.
Collect(table, t) ==
  IF ~HasConcat(t) THEN [table |-> table, segs |-> <<t>>, err |-> "nil"]
  ELSE IF \E s \in Group(table, Key(t)) : s.seq = t.seq
       THEN [table |-> table, segs |-> <<>>, err |-> "DuplicateSegment"]
       ELSE LET g == Group(table, Key(t)) \cup {t}
            IN  IF Cardinality(g) = t.total
                THEN [table |-> table \ g, segs |-> Ordered(g), err |-> "nil"]
                ELSE [table |-> table \cup {t}, segs |-> <<>>, err |-> "nil"]

\* The loop of ListSmsPdu hands the TPDU of the next listed message to the
\* collector. A segment of a group is listed once; the modem may list it again
\* (with any user data) while its group is pending.
CollectStep(t) ==
  /\ \/ ~HasConcat(t)
     \/ <<Key(t), t.seq>> \notin fed
     \/ \E s \in Group(pipes, Key(t)) : s.seq = t.seq
  /\ LET r == Collect(pipes, t)
     IN  /\ pipes' = r.table
         /\ out' = [t |-> t, segs |-> r.segs, err |-> r.err]
         /\ fed' = IF HasConcat(t) /\ r.err = "nil"
                   THEN fed \cup {<<Key(t), t.seq>>} ELSE fed
         /\ emits' = IF HasConcat(t) /\ r.segs # <<>>
                     THEN Append(emits, r.segs) ELSE emits
  /\ UNCHANGED rt

CollectNext ==
  \E t \in Tpdus : CollectStep(t) /\ UNCHANGED <<devVars, smsVars, pduVars>>

\* The collector of one ListSmsPdu, from NewCollector on.
CollectSpec == Init /\ [][CollectNext]_vars

\* ---------------------------------------------------------------- WithReassemblyTimeout
\* The TPDUs handed to a collector made with WithReassemblyTimeout: the
\* segments of its groups and a message without concatenation header.
SingleTpdu == [oa |-> "A", ref |-> 0, total |-> 0, seq |-> 0, ud |-> "x"]

ExpiryTpdus ==
  UNION { { [oa |-> g.oa, ref |-> g.ref, total |-> g.total, seq |-> q, ud |-> "x"] :
              q \in 1..g.total } : g \in ExpiryGroups }
  \cup {SingleTpdu}

\* The deadlines after Collect(pipes, t): the deadline of a group starts when
\* its first segment creates it and is stopped when the group completes (a
\* deadline that has fired cannot be stopped).
TimerAfter(t) ==
  LET r == Collect(pipes, t)
      k == Key(t)
  IN  IF ~HasConcat(t) \/ r.err # "nil" THEN rt.timer
      ELSE IF r.segs # <<>>
           THEN [rt.timer EXCEPT ![k] = IF @ = "armed" THEN "off" ELSE @]
           ELSE IF Group(pipes, k) = {} THEN [rt.timer EXCEPT ![k] = "armed"]
           ELSE rt.timer

\* Collect takes the mutex of the table.
CollectEnter(t) ==
  /\ rt.mu = Free
  /\ \/ ~HasConcat(t)
     \/ <<Key(t), t.seq>> \notin fed
     \/ \E s \in Group(pipes, Key(t)) : s.seq = t.seq
  /\ rt' = [rt EXCEPT !.mu = [who |-> "caller", key |-> NoKey, i |-> 0], !.cin = t]
  /\ UNCHANGED <<pipes, out, fed, emits>>

\* Collect looks the group up, inserts the segment, and releases the mutex.
CollectLeave ==
  /\ rt.mu.who \in {"caller", "cb"}
  /\ LET t == rt.cin
         r == Collect(pipes, t)
     IN  /\ pipes' = r.table
         /\ out' = [t |-> t, segs |-> r.segs, err |-> r.err]
         /\ fed' = IF HasConcat(t) /\ r.err = "nil"
                   THEN fed \cup {<<Key(t), t.seq>>} ELSE fed
         /\ emits' = IF HasConcat(t) /\ r.segs # <<>>
                     THEN Append(emits, r.segs) ELSE emits
         /\ rt' = [rt EXCEPT !.mu = Free, !.cin = NoTpdu, !.timer = TimerAfter(t),
                             !.cbs = IF rt.mu.who = "cb"
                                     THEN [rt.cbs EXCEPT ![rt.mu.i].pc = "ret"]
                                     ELSE rt.cbs]

\* The deadline of a group elapses: its function is started.
TimerFire(k) ==
  /\ rt.timer[k] = "armed"
  /\ rt' = [rt EXCEPT !.timer[k] = "fired"]
  /\ UNCHANGED <<pipes, out, fed, emits>>

\* The function of the deadline takes the mutex of the table.
TimerLock(k) ==
  /\ rt.timer[k] = "fired" /\ rt.mu = Free
  /\ rt' = [rt EXCEPT !.mu = [who |-> "timer", key |-> k, i |-> 0]]
  /\ UNCHANGED <<pipes, out, fed, emits>>

\* Mutant of TimerExpire: the mutex is kept while the callback runs.
TimerExpire_KeepsMutex(k) ==
  /\ rt.mu = [who |-> "timer", key |-> k, i |-> 0] /\ rt.timer[k] = "fired"
  /\ LET g == Group(pipes, k)
     IN  IF g # {}
         THEN /\ pipes' = pipes \ g
              /\ rt' = [rt EXCEPT !.timer[k] = "off",
                          !.cbs = Append(@, [ref |-> k[2], total |-> k[3],
                                             received |-> Cardinality(g), pc |-> "start"])]
         ELSE /\ pipes' = pipes
              /\ rt' = [rt EXCEPT !.mu = Free, !.timer[k] = "off"]
  /\ UNCHANGED <<out, fed, emits>>

\* The function of the deadline, holding the mutex: a group that is still in
\* the table is incomplete; it is removed, the mutex is released, and the
\* expiry callback is to be invoked with (reference, total, received). A group
\* that completed in the meantime is gone: nothing to do.
TimerExpire(k) ==
  /\ rt.mu = [who |-> "timer", key |-> k, i |-> 0] /\ rt.timer[k] = "fired"
  /\ LET g == Group(pipes, k)
     IN  IF g # {}
         THEN /\ pipes' = pipes \ g
              /\ rt' = [rt EXCEPT !.mu = Free, !.timer[k] = "off",
                          !.cbs = Append(@, [ref |-> k[2], total |-> k[3],
                                             received |-> Cardinality(g), pc |-> "start"])]
         ELSE /\ pipes' = pipes
              /\ rt' = [rt EXCEPT !.mu = Free, !.timer[k] = "off"]
  /\ UNCHANGED <<out, fed, emits>>

\* The expiry callback is invoked.
CallbackStart(i) ==
  /\ i \in 1..Len(rt.cbs) /\ rt.cbs[i].pc = "start"
  /\ rt' = [rt EXCEPT !.cbs[i].pc = "body",
                      !.calls = Append(@, [ref |-> rt.cbs[i].ref, total |-> rt.cbs[i].total,
                                           received |-> rt.cbs[i].received])]
  /\ UNCHANGED <<pipes, out, fed, emits>>

\* The callback calls Collect: it takes the mutex of the table.
CallbackCollect(i) ==
  /\ i \in 1..Len(rt.cbs) /\ rt.cbs[i].pc = "body"
  /\ rt.mu = Free
  /\ rt' = [rt EXCEPT !.mu = [who |-> "cb", key |-> NoKey, i |-> i], !.cin = SingleTpdu,
                      !.cbs[i].pc = "collect"]
  /\ UNCHANGED <<pipes, out, fed, emits>>

\* The callback returns.
CallbackReturn(i) ==
  /\ i \in 1..Len(rt.cbs) /\ rt.cbs[i].pc \in {"body", "ret"}
  /\ rt' = [rt EXCEPT !.cbs[i].pc = "done"]
  /\ UNCHANGED <<pipes, out, fed, emits>>

\* At most one callback per segment of the groups.
CallbackIds == 1..4

ExpiryNext ==
  \/ \E t \in ExpiryTpdus : CollectEnter(t) /\ UNCHANGED <<devVars, smsVars, pduVars>>
  \/ CollectLeave /\ UNCHANGED <<devVars, smsVars, pduVars>>
  \/ \E k \in ExpiryKeys : TimerFire(k) /\ UNCHANGED <<devVars, smsVars, pduVars>>
  \/ \E k \in ExpiryKeys : TimerLock(k) /\ UNCHANGED <<devVars, smsVars, pduVars>>
  \/ \E k \in ExpiryKeys : TimerExpire(k) /\ UNCHANGED <<devVars, smsVars, pduVars>>
  \/ \E i \in CallbackIds : CallbackStart(i) /\ UNCHANGED <<devVars, smsVars, pduVars>>
  \/ \E i \in CallbackIds : CallbackCollect(i) /\ UNCHANGED <<devVars, smsVars, pduVars>>
  \/ \E i \in CallbackIds : CallbackReturn(i) /\ UNCHANGED <<devVars, smsVars, pduVars>>

\* A collector made with WithReassemblyTimeout, from NewCollector on.
ExpirySpec == Init /\ [][ExpiryNext]_vars

\* ---------------------------------------------------------------- SendSMSText
\* The characters of a message: a letter and a bracket (ASCII; the bracket is
\* in the GSM-7 extension table), a Chinese character (in the BMP) and an
\* emoji (outside the BMP).
Runes == {"a", "[", "CJK", "EMOJI"}

\* r > 127
NonAscii(r) == r \in {"CJK", "EMOJI"}

\* The bytes of the character in the Go string (UTF-8), its UTF-16 code units
\* (utf16.Encode), its septets in GSM-7 (gsm7bitExtChars holds the bracket).
Utf8Len(r) == IF r = "CJK" THEN 3 ELSE IF r = "EMOJI" THEN 4 ELSE 1
Utf16Len(r) == IF r = "EMOJI" THEN 2 ELSE 1
SeptetLen(r) == IF r = "[" THEN 2 ELSE 1

Count(m, P(_)) == Cardinality({i \in 1..Len(m) : P(m[i])})
IsEmoji(r) == r = "EMOJI"
IsCjk(r) == r = "CJK"
IsExt(r) == r = "["

\* len(message), the code units and the septets of a message.
ByteLen(m) == Len(m) + 2 * Count(m, IsCjk) + 3 * Count(m, IsEmoji)
Utf16Units(m) == Len(m) + Count(m, IsEmoji)
Septets(m) == Len(m) + Count(m, IsExt)

Rep(n, r) == [i \in 1..n |-> r]

\* The lengths of the messages, around the limits.
TextLengths == {1, 66, 67, 69, 70, 71, 134, 135, 152, 153, 159, 160, 161, 306, 307}

\* The messages handed to SendSMSText: letters, letters before or after one
\* bracket, Chinese characters, Chinese characters before or after one emoji,
\* and a Chinese text of 255 segments and one character. A message is written
\* as a first character (or none), n times a character, a last character (or none).
LongestText == 255 * MaxUCS2ConcatLength + 1

TextMessages ==
  { [pre |-> "", fill |-> "a", n |-> n, post |-> ""] : n \in TextLengths }
  \cup { [pre |-> "", fill |-> "a", n |-> n - 1, post |-> "["] : n \in TextLengths }
  \cup { [pre |-> "[", fill |-> "a", n |-> n - 1, post |-> ""] : n \in TextLengths }
  \cup { [pre |-> "", fill |-> "CJK", n |-> n, post |-> ""] : n \in TextLengths }
  \cup { [pre |-> "", fill |-> "CJK", n |-> n - 1, post |-> "EMOJI"] : n \in TextLengths }
  \cup { [pre |-> "EMOJI", fill |-> "CJK", n |-> n - 1, post |-> ""] : n \in TextLengths }
  \cup { [pre |-> "", fill |-> "CJK", n |-> LongestText, post |-> ""] }

\* The characters of a message.
Text(d) ==
  (IF d.pre = "" THEN <<>> ELSE <<d.pre>>) \o Rep(d.n, d.fill)
    \o (IF d.post = "" THEN <<>> ELSE <<d.post>>)

\* needsUCS2Encoding
needsUCS2Encoding(m) == \E i \in 1..Len(m) : NonAscii(m[i])

Min(a, b) == IF a < b THEN a ELSE b

\* Mutant of sendLongSegments: the end of a piece is exclusive once too often.
sendLongSegments_EndShort(m, useUCS2) ==
  LET cap == IF useUCS2 THEN MaxUCS2ConcatLength ELSE MaxConcatSMSLength
      n == (Len(m) + cap - 1) \div cap
  IN  [k \in 1..n |-> [from |-> (k - 1) * cap + 1, to |-> Min(k * cap, Len(m)) - 1]]

\* sendLongSMS, the segments: pieces message[i:end] of maxSegmentLength runes
\* (UCS2) or bytes (a message without UCS2 has one byte per character), each
\* written as the positions of its first and last character.
sendLongSegments(m, useUCS2) ==
  LET cap == IF useUCS2 THEN MaxUCS2ConcatLength ELSE MaxConcatSMSLength
      n == (Len(m) + cap - 1) \div cap
  IN  [k \in 1..n |-> [from |-> (k - 1) * cap + 1, to |-> Min(k * cap, Len(m))]]

Uint8(n) == n % 256

\* buildPDU, the parts that depend on the concatenation: the PDU type (51 with
\* a user data header, 11 without), the header 05 00 03 ref total seq, the data.
buildPDU(data, reference, total, sequence) ==
  [udhi |-> total > 0,
   udh |-> IF total > 0 THEN <<reference, total, sequence>> ELSE <<>>,
   ud |-> data]

\* What SendSMSPDU or sendSimpleTextSMS did: the PDU went out and the modem
\* accepted it, the first write failed, or the message went out and the modem
\* refused it.
SendOutcomes == {"ok", "write failed", "send failed"}

\* SendSMSText is called with a message.
TextInit ==
  /\ DevInit /\ SmsIdle /\ ColIdle
  /\ enc = NoEnc
  /\ \E m \in TextMessages :
       tx = [pc |-> "call", message |-> m, i |-> 0, sent |-> <<>>, err |-> "none"]

\* SendSMSText: a message of more than maxLength characters goes to sendLongSMS.
SendSMSText ==
  /\ tx.pc = "call"
  /\ LET message == Text(tx.message)
         maxLength == IF needsUCS2Encoding(message) THEN MaxUCS2SMSLength
                      ELSE MaxSMSLength
     IN  tx' = [tx EXCEPT !.pc = IF Len(message) > maxLength THEN "long" ELSE "single"]

\* sendUCS2SMS (buildPDU with 0, 0, 0) or sendSimpleTextSMS (text mode).
SendSingle(o) ==
  /\ tx.pc = "single"
  /\ tx' = [tx EXCEPT !.pc = "ret",
                      !.err = IF o = "ok" THEN "nil" ELSE o,
                      !.sent = IF o = "write failed" THEN @
                               ELSE Append(@, buildPDU([from |-> 1, to |-> Len(Text(tx.message))],
                                                       0, 0, 0))]

\* sendLongSMS, one turn of the loop over the segments: buildPDU and SendSMSPDU.
SendLongSegment(o) ==
  /\ tx.pc = "long"
  /\ LET message == Text(tx.message)
         useUCS2 == needsUCS2Encoding(message)
         segments == sendLongSegments(message, useUCS2)
         reference == Uint8(ByteLen(message) % 256)
         totalSegments == Uint8(Len(segments))
         sequence == Uint8(tx.i + 1)
     IN  /\ tx.i < Len(segments)
         /\ tx' = [tx EXCEPT !.i = IF o = "ok" THEN @ + 1 ELSE @,
                             !.pc = IF o = "ok" THEN "long" ELSE "ret",
                             !.err = IF o = "ok" THEN @ ELSE o,
                             !.sent = IF o = "write failed" THEN @
                                      ELSE Append(@, buildPDU(segments[tx.i + 1], reference,
                                                              totalSegments, sequence))]

\* sendLongSMS returns nil after the last segment.
SendLongDone ==
  /\ tx.pc = "long"
  /\ tx.i = Len(sendLongSegments(Text(tx.message), needsUCS2Encoding(Text(tx.message))))
  /\ tx' = [tx EXCEPT !.pc = "ret", !.err = "nil"]

TextNext ==
  \/ SendSMSText /\ UNCHANGED <<devVars, smsVars, colVars, enc>>
  \/ \E o \in SendOutcomes : SendSingle(o) /\ UNCHANGED <<devVars, smsVars, colVars, enc>>
  \/ \E o \in SendOutcomes : SendLongSegment(o) /\ UNCHANGED <<devVars, smsVars, colVars, enc>>
  \/ SendLongDone /\ UNCHANGED <<devVars, smsVars, colVars, enc>>

TextSpec == TextInit /\ [][TextNext]_vars

\* ---------------------------------------------------------------- GSM 7-bit
\* The default alphabet, by septet value from 0 (a character outside printable
\* ASCII, a quote and a backslash are written by their code point).
gsm7bitChars ==
  <<
     "@", "U+00A3", "$", "U+00A5", "U+00E8", "U+00E9", "U+00F9", "U+00EC",
     "U+00F2", "U+00C7", "U+000A", "U+00D8", "U+00F8", "U+000D", "U+00C5", "U+00E5",
     "U+0394", "_", "U+03A6", "U+0393", "U+039B", "U+03A9", "U+03A0", "U+03A8",
     "U+03A3", "U+0398", "U+039E", "U+001B", "U+00C6", "U+00E6", "U+00DF", "U+00C9",
     "U+0020", "!", "U+0022", "#", "U+00A4", "%", "&", "'",
     "(", ")", "*", "+", ",", "-", ".", "/",
     "0", "1", "2", "3", "4", "5", "6", "7",
     "8", "9", ":", ";", "<", "=", ">", "?",
     "U+00A1", "A", "B", "C", "D", "E", "F", "G",
     "H", "I", "J", "K", "L", "M", "N", "O",
     "P", "Q", "R", "S", "T", "U", "V", "W",
     "X", "Y", "Z", "U+00C4", "U+00D6", "U+00D1", "U+00DC", "U+00A7",
     "U+00BF", "a", "b", "c", "d", "e", "f", "g",
     "h", "i", "j", "k", "l", "m", "n", "o",
     "p", "q", "r", "s", "t", "u", "v", "w",
     "x", "y", "z", "U+00E4", "U+00F6", "U+00F1", "U+00FC", "U+00E0" >>

\* gsm7bitExtChars: the characters of the extension table and their codes.
gsm7bitExtChars ==
  { <<"|", 64>>, <<"^", 20>>, <<"U+20AC", 101>>, <<"{", 40>>, <<"}", 41>>,
    <<"[", 60>>, <<"]", 62>>, <<"~", 61>>, <<"U+005C", 47>> }

\* a << n, a | b and a >> n on uint32, a & mask for a mask of low bits. The
\* buffers of pack7Bit and unpack7Bit hold at most 7 bits when a septet or a
\* byte is shifted in by at most 7: no value reaches 2^15, nothing is cut off.
Pow2(n) == 2 ^ n
Shl32(a, n) == a * Pow2(n)
Shr(a, n) == a \div Pow2(n)
Low(a, n) == a % Pow2(n)
RECURSIVE BitOr(_, _)
BitOr(a, b) ==
  IF a = 0 THEN b ELSE IF b = 0 THEN a
  ELSE (IF a % 2 = 1 \/ b % 2 = 1 THEN 1 ELSE 0) + 2 * BitOr(a \div 2, b \div 2)

\* pack7Bit, the inner loop: for bits >= 8 { append the low byte; shift }.
RECURSIVE packFlush(_)
packFlush(st) ==
  IF st.bits >= 8
  THEN packFlush([packed |-> Append(st.packed, Low(st.buffer, 8)),
                  buffer |-> Shr(st.buffer, 8), bits |-> st.bits - 8])
  ELSE st

\* pack7Bit, the loop over the septets from the i-th on.
RECURSIVE packLoop(_, _, _)
packLoop(septets, i, st) ==
  IF i > Len(septets) THEN st
  ELSE packLoop(septets, i + 1,
                packFlush([packed |-> st.packed,
                           buffer |-> BitOr(st.buffer, Shl32(septets[i], st.bits)),
                           bits |-> st.bits + 7]))

\* Mutant of pack7Bit: the bits left in the buffer after the last septet are
\* not written.
pack7Bit_NoTail(septets) ==
  IF septets = <<>> THEN <<>>
  ELSE packLoop(septets, 1, [packed |-> <<>>, buffer |-> 0, bits |-> 0]).packed

\* pack7Bit: the bytes flushed in the loop and one more for the bits left.
pack7Bit(septets) ==
  IF septets = <<>> THEN <<>>
  ELSE LET st == packLoop(septets, 1, [packed |-> <<>>, buffer |-> 0, bits |-> 0])
       IN  IF st.bits > 0 THEN Append(st.packed, Low(st.buffer, 8)) ELSE st.packed

\* unpack7Bit, the inner loop: for bits >= 7 && len(septets) < length.
RECURSIVE unpackDrain(_, _)
unpackDrain(st, length) ==
  IF st.bits >= 7 /\ Len(st.septets) < length
  THEN unpackDrain([septets |-> Append(st.septets, Low(st.buffer, 7)),
                    buffer |-> Shr(st.buffer, 7), bits |-> st.bits - 7], length)
  ELSE st

\* unpack7Bit, the loop over the bytes from the i-th on, left when length
\* septets are there.
RECURSIVE unpackLoop(_, _, _, _)
unpackLoop(data, i, st, length) ==
  IF i > Len(data) THEN st
  ELSE LET nx == unpackDrain([septets |-> st.septets,
                              buffer |-> BitOr(st.buffer, Shl32(data[i], st.bits)),
                              bits |-> st.bits + 8], length)
       IN  IF Len(nx.septets) >= length THEN nx
           ELSE unpackLoop(data, i + 1, nx, length)

unpack7Bit(data, length) ==
  IF data = <<>> \/ length = 0 THEN <<>>
  ELSE unpackLoop(data, 1, [septets |-> <<>>, buffer |-> 0, bits |-> 0], length).septets

\* The index of a character in gsm7bitChars, from 0; -1: not there.
IndexOf(r) ==
  IF \E i \in 1..Len(gsm7bitChars) : gsm7bitChars[i] = r
  THEN (CHOOSE i \in 1..Len(gsm7bitChars) :
          gsm7bitChars[i] = r /\ \A j \in 1..(i - 1) : gsm7bitChars[j] # r) - 1
  ELSE -1

IsExtChar(r) == \E e \in gsm7bitExtChars : e[1] = r
ExtCode(r) == (CHOOSE e \in gsm7bitExtChars : e[1] = r)[2]

\* Encode7Bit, the loop over the characters from the i-th on: the septets, or
\* the error for a character that is in neither table.
RECURSIVE encodeSeptets(_, _, _)
encodeSeptets(text, i, septets) ==
  IF i > Len(text) THEN [septets |-> septets, err |-> "nil"]
  ELSE IF IsExtChar(text[i])
       THEN encodeSeptets(text, i + 1, septets \o <<27, ExtCode(text[i])>>)
       ELSE IF IndexOf(text[i]) = -1
            THEN [septets |-> <<>>, err |-> "not supported"]
            ELSE encodeSeptets(text, i + 1, Append(septets, IndexOf(text[i])))

Encode7Bit(text) ==
  LET r == encodeSeptets(text, 1, <<>>)
  IN  IF r.err = "nil" THEN [data |-> pack7Bit(r.septets), err |-> "nil"]
      ELSE [data |-> <<>>, err |-> r.err]

\* Decode7Bit, the loop over the septets from the i-th on.
RECURSIVE decodeSeptets(_, _, _, _)
decodeSeptets(septets, i, escape, text) ==
  IF i > Len(septets) THEN text
  ELSE LET septet == septets[i]
       IN  IF escape
           THEN decodeSeptets(septets, i + 1, FALSE,
                  IF \E e \in gsm7bitExtChars : e[2] = septet
                  THEN Append(text, (CHOOSE e \in gsm7bitExtChars : e[2] = septet)[1])
                  ELSE text)
           ELSE IF septet = 27 THEN decodeSeptets(septets, i + 1, TRUE, text)
           ELSE IF septet < Len(gsm7bitChars)
                THEN decodeSeptets(septets, i + 1, FALSE, Append(text, gsm7bitChars[septet + 1]))
                ELSE decodeSeptets(septets, i + 1, FALSE, text)

Decode7Bit(data, length) == decodeSeptets(unpack7Bit(data, length), 1, FALSE, <<>>)

\* The texts handed to Encode7Bit: up to three characters, of the default
\* table (its first and its last character, a letter, a parenthesis, the
\* character at 0x1B), of the extension table, and one of neither.
GsmRunes == {"@", "U+00E0", "H", "(", "U+001B", "{", "U+20AC", "CJK"}
GsmTexts ==
  {<<>>} \cup { <<a>> : a \in GsmRunes } \cup { <<a, b>> : a, b \in GsmRunes }
  \cup { <<a, b, c>> : a, b, c \in GsmRunes \ {"CJK", "U+20AC"} }
  \cup { <<"H", "e", "l", "l", "o">>, <<"1", "2", "3", "4", "5", "6", "7">>,
         <<"1", "2", "3", "4", "5", "6", "7", "8">>,
         <<"1", "2", "3", "4", "5", "6", "7", "8", "9">> }

\* The septet sequences handed to pack7Bit: up to eight septets.
SeptetValues == {0, 27, 127}
RECURSIVE SeqsUpTo(_, _)
SeqsUpTo(S, n) ==
  IF n = 0 THEN {<<>>}
  ELSE LET shorter == SeqsUpTo(S, n - 1)
       IN  shorter \cup { Append(q, x) : q \in {p \in shorter : Len(p) = n - 1}, x \in S }
SeptetSeqs == SeqsUpTo(SeptetValues, 8) \cup { <<72, 101, 108, 108, 111>> }

\* The septets of a text: an extension character counts two.
SeptetCount(text) == Len(text) + Cardinality({i \in 1..Len(text) : IsExtChar(text[i])})

\* A text is about to be encoded, or a septet sequence to be packed.
GsmInit ==
  /\ DevInit /\ SmsIdle /\ ColIdle /\ tx = NoTx
  /\ \/ \E s \in GsmTexts :
          enc = [f |-> "text", in |-> s, data |-> <<>>, n |-> 0, out |-> <<>>, err |-> "none"]
     \/ \E q \in SeptetSeqs :
          enc = [f |-> "septets", in |-> q, data |-> <<>>, n |-> 0, out |-> <<>>, err |-> "none"]

Encode7BitCall ==
  /\ enc.f = "text"
  /\ LET r == Encode7Bit(enc.in)
     IN  enc' = [enc EXCEPT !.f = IF r.err = "nil" THEN "encoded" ELSE "failed",
                            !.data = r.data, !.err = r.err, !.n = SeptetCount(enc.in)]

Decode7BitCall ==
  /\ enc.f = "encoded"
  /\ enc' = [enc EXCEPT !.f = "decoded", !.out = Decode7Bit(enc.data, enc.n)]

pack7BitCall ==
  /\ enc.f = "septets"
  /\ enc' = [enc EXCEPT !.f = "packed", !.data = pack7Bit(enc.in), !.n = Len(enc.in)]

unpack7BitCall ==
  /\ enc.f = "packed"
  /\ enc' = [enc EXCEPT !.f = "unpacked", !.out = unpack7Bit(enc.data, enc.n)]

GsmNext ==
  \/ Encode7BitCall /\ UNCHANGED <<devVars, smsVars, colVars, tx>>
  \/ Decode7BitCall /\ UNCHANGED <<devVars, smsVars, colVars, tx>>
  \/ pack7BitCall /\ UNCHANGED <<devVars, smsVars, colVars, tx>>
  \/ unpack7BitCall /\ UNCHANGED <<devVars, smsVars, colVars, tx>>

GsmSpec == GsmInit /\ [][GsmNext]_vars

\* ---------------------------------------------------------------- addresses
\* SwapNibbles: for i := 0; i < len(bytes)-1; i += 2 { swap bytes[i], bytes[i+1] }
SwapNibbles(s) ==
  [i \in 1..Len(s) |-> IF i % 2 = 1 THEN (IF i < Len(s) THEN s[i + 1] ELSE s[i])
                       ELSE s[i - 1]]

Digits == {"0", "1", "2", "3", "4", "5", "6", "7", "8", "9"}

\* The address types: the type octets of an unknown, an international and an
\* alphanumeric address.
AddressTypeUnknown == 129
AddressTypeInternational == 145
AddressTypeAlphanumeric == 208

\* The hexadecimal digits, upper case, in the order of their values.
HexDigits == <<"0", "1", "2", "3", "4", "5", "6", "7",
               "8", "9", "A", "B", "C", "D", "E", "F">>
HexVal(c) ==
  IF \E i \in 1..16 : HexDigits[i] = c
  THEN (CHOOSE i \in 1..16 : HexDigits[i] = c) - 1 ELSE -1
IsHex(s) == \A i \in 1..Len(s) : HexVal(s[i]) >= 0

\* HexToBytes: an error for an odd length and for a character that is no
\* hexadecimal digit, the bytes otherwise.
HexToBytes(hexStr) ==
  IF Len(hexStr) % 2 # 0 \/ ~IsHex(hexStr) THEN [err |-> TRUE, bytes |-> <<>>]
  ELSE [err |-> FALSE,
        bytes |-> [i \in 1..(Len(hexStr) \div 2) |->
                     16 * HexVal(hexStr[2 * i - 1]) + HexVal(hexStr[2 * i])]]

\* The loop of EncodePhoneNumber: the digits of the number, the others dropped.
RECURSIVE cleaned(_)
cleaned(number) ==
  IF number = <<>> THEN <<>>
  ELSE IF Head(number) \in Digits THEN <<Head(number)>> \o cleaned(Tail(number))
  ELSE cleaned(Tail(number))

\* Mutant of EncodePhoneNumber: an odd number of digits is not padded.
EncodePhoneNumber_NoPad(number) ==
  [typ |-> IF \E i \in 1..Len(number) : number[i] = "+" THEN AddressTypeInternational
            ELSE AddressTypeUnknown,
   data |-> SwapNibbles(cleaned(number))]

\* EncodePhoneNumber: the address type and the swapped digits.
EncodePhoneNumber(number) ==
  LET digits == cleaned(number)
      padded == IF Len(digits) % 2 # 0 THEN Append(digits, "F") ELSE digits
  IN  [typ |-> IF \E i \in 1..Len(number) : number[i] = "+" THEN AddressTypeInternational
               ELSE AddressTypeUnknown,
       data |-> SwapNibbles(padded)]

\* strings.TrimSuffix(s, "F")
TrimSuffixF(s) == IF s # <<>> /\ s[Len(s)] = "F" THEN SubSeq(s, 1, Len(s) - 1) ELSE s

\* DecodePhoneNumber: an alphanumeric address is unpacked as 7-bit text (the
\* data as it is when it is no hexadecimal string); the others are swapped
\* back, lose one trailing F and get a + when the type is international.
DecodePhoneNumber(data, addrType) ==
  IF addrType = AddressTypeAlphanumeric
  THEN LET b == HexToBytes(data)
       IN  IF b.err THEN data ELSE Decode7Bit(b.bytes, (Len(b.bytes) * 8) \div 7)
  ELSE LET swapped == TrimSuffixF(SwapNibbles(data))
       IN  IF addrType = AddressTypeInternational THEN <<"+">> \o swapped ELSE swapped

\* The phone numbers: up to MaxDigits digits, with or without a leading +.
NumberDigits == {"0", "1", "9"}
DigitStrings == SeqsUpTo(NumberDigits, MaxDigits)
PhoneNumbers == DigitStrings \cup { <<"+">> \o d : d \in DigitStrings }

AddrInit ==
  /\ DevInit /\ SmsIdle /\ ColIdle /\ tx = NoTx
  /\ \E n \in PhoneNumbers :
       enc = [f |-> "number", in |-> n, typ |-> 0, data |-> <<>>, out |-> <<>>]

EncodePhoneNumberCall ==
  /\ enc.f = "number"
  /\ LET r == EncodePhoneNumber(enc.in)
     IN  enc' = [enc EXCEPT !.f = "encoded", !.typ = r.typ, !.data = r.data]

DecodePhoneNumberCall ==
  /\ enc.f = "encoded"
  /\ enc' = [enc EXCEPT !.f = "decoded", !.out = DecodePhoneNumber(enc.data, enc.typ)]

AddrNext ==
  \/ EncodePhoneNumberCall /\ UNCHANGED <<devVars, smsVars, colVars, tx>>
  \/ DecodePhoneNumberCall /\ UNCHANGED <<devVars, smsVars, colVars, tx>>

AddrSpec == AddrInit /\ [][AddrNext]_vars

\* ---------------------------------------------------------------- Decode
\* A slice s[a:b] of a string, its characters counted from 0: the program stops
\* with "slice bounds out of range" unless a <= b <= len(s).
InRange(s, a, b) == a <= b /\ b <= Len(s)
Slice(s, a, b) == SubSeq(s, a + 1, b)

\* strings.ToUpper, on the letters a PDU string of the model holds.
UpperOf(c) ==
  CASE c = "a" -> "A" [] c = "b" -> "B" [] c = "c" -> "C"
    [] c = "d" -> "D" [] c = "e" -> "E" [] c = "f" -> "F" [] OTHER -> c
ToUpper(s) == [i \in 1..Len(s) |-> UpperOf(s[i])]

\* parseHexByte: the value of one or two hexadecimal digits, 0 when
\* strconv.ParseUint reports a syntax error.
parseHexByte(hex) ==
  IF hex = <<>> \/ ~IsHex(hex) THEN 0
  ELSE IF Len(hex) = 1 THEN HexVal(hex[1])
  ELSE 16 * HexVal(hex[1]) + HexVal(hex[2])

\* strconv.Atoi of two characters, its error ignored: 0 unless both are digits.
Atoi(s) ==
  IF Len(s) = 2 /\ s[1] \in Digits /\ s[2] \in Digits
  THEN 10 * HexVal(s[1]) + HexVal(s[2]) ELSE 0

\* fmt.Sprintf("%02X", b)
Sprintf02X(b) == <<HexDigits[(b \div 16) + 1], HexDigits[(b % 16) + 1]>>

\* The outcomes of Decode: a message, an error, or the end of the program.
NoTime == [y |-> 0, m |-> 0, d |-> 0, h |-> 0, min |-> 0, s |-> 0, tzOffset |-> 0]
NoUserText == [gsm |-> <<>>, raw |-> <<>>, ucs2 |-> <<>>]
NoMsg ==
  [Type |-> "none", SMSC |-> <<>>, PhoneNumber |-> <<>>, Encoding |-> "none",
   Flash |-> FALSE, ValidityPeriod |-> 0, Timestamp |-> NoTime, Text |-> NoUserText,
   UDH |-> <<>>, Reference |-> 0, Parts |-> 0, Part |-> 0]
Panics(e) == [out |-> "panic", err |-> e, msg |-> NoMsg]
Fails(e) == [out |-> "error", err |-> e, msg |-> NoMsg]
Returns(m) == [out |-> "message", err |-> "nil", msg |-> m]
OutOfRange == Panics("slice bounds out of range")

\* decodeTimestamp of 14 characters: the arguments of time.Date and the offset
\* of the zone in minutes. tz[0] >= '8' holds for 8, 9 and the letters.
decodeTimestamp(ts) ==
  LET tz == Slice(ts, 12, 14)
      tzSign == IF tz[1] \in {"0", "1", "2", "3", "4", "5", "6", "7"} THEN 1 ELSE -1
      tzValue == IF tzSign = -1 THEN SwapNibbles(Sprintf02X(parseHexByte(tz) % 128))
                 ELSE SwapNibbles(tz)
      year == Atoi(SwapNibbles(Slice(ts, 0, 2)))
  IN  [y |-> IF year < 70 THEN year + 2000 ELSE year + 1900,
       m |-> Atoi(SwapNibbles(Slice(ts, 2, 4))),
       d |-> Atoi(SwapNibbles(Slice(ts, 4, 6))),
       h |-> Atoi(SwapNibbles(Slice(ts, 6, 8))),
       min |-> Atoi(SwapNibbles(Slice(ts, 8, 10))),
       s |-> Atoi(SwapNibbles(Slice(ts, 10, 12))),
       tzOffset |-> tzSign * Atoi(tzValue) * 15]

\* utf16.Decode from the i-th code unit on: a surrogate pair is one code
\* point, a lone surrogate is U+FFFD.
RECURSIVE utf16Decode(_, _)
utf16Decode(codes, i) ==
  IF i > Len(codes) THEN <<>>
  ELSE LET c == codes[i]
       IN  IF /\ c >= 55296 /\ c < 56320 /\ i < Len(codes)
              /\ codes[i + 1] >= 56320 /\ codes[i + 1] < 57344
           THEN <<65536 + ((c - 55296) * 1024) + (codes[i + 1] - 56320)>>
                  \o utf16Decode(codes, i + 2)
           ELSE IF c >= 55296 /\ c < 57344 THEN <<65533>> \o utf16Decode(codes, i + 1)
           ELSE <<c>> \o utf16Decode(codes, i + 1)

\* DecodeUCS2: the code points of big-endian UTF-16, nothing for an odd length.
DecodeUCS2(data) ==
  IF Len(data) % 2 # 0 THEN <<>>
  ELSE utf16Decode([i \in 1..(Len(data) \div 2) |-> data[2 * i - 1] * 256 + data[2 * i]], 1)

\* shiftRight, the loop from the i-th byte on.
RECURSIVE shiftLoop(_, _, _, _)
shiftLoop(data, bits, i, carry) ==
  IF i > Len(data) THEN <<>>
  ELSE <<BitOr(Shr(data[i], bits), carry)>>
         \o shiftLoop(data, bits, i + 1, Low(data[i], bits) * Pow2(8 - bits))

shiftRight(data, bits) ==
  IF bits = 0 \/ data = <<>> THEN data ELSE shiftLoop(data, bits, 1, 0)

abs(x) == IF x < 0 THEN 0 - x ELSE x

Letters ==
  {"a", "b", "c", "d", "e", "f", "g", "h", "i", "j", "k", "l", "m",
   "n", "o", "p", "q", "r", "s", "t", "u", "v", "w", "x", "y", "z",
   "A", "B", "C", "D", "E", "F", "G", "H", "I", "J", "K", "L", "M",
   "N", "O", "P", "Q", "R", "S", "T", "U", "V", "W", "X", "Y", "Z"}
letterScore(t) == Cardinality({i \in 1..Len(t) : t[i] \in Letters})

\* The score decodeUserData gives to a text tried after the header.
tryScore(tryText, textSeptets) ==
  letterScore(tryText)
    + (IF abs(Len(tryText) - textSeptets) <= 2
       THEN 10 - abs(Len(tryText) - textSeptets) ELSE 0)
    + (IF tryText # <<>> /\ tryText[1] = "M" THEN 100 ELSE 0)

\* decodeUserData, the loop over offsetDelta: the first text of the highest
\* score. A text has at least as many bytes as runes, so the test against the
\* runes decides.
RECURSIVE bestOffset(_, _, _, _, _)
bestOffset(fullRunes, udhSeptets, textSeptets, offsetDelta, best) ==
  IF offsetDelta > 5 THEN best
  ELSE LET tryOffset == udhSeptets + offsetDelta
           tryText == SubSeq(fullRunes, tryOffset + 1, Len(fullRunes))
       IN  IF tryOffset < 0 \/ tryOffset > Len(fullRunes)
           THEN bestOffset(fullRunes, udhSeptets, textSeptets, offsetDelta + 1, best)
           ELSE IF tryScore(tryText, textSeptets) > best.score
           THEN bestOffset(fullRunes, udhSeptets, textSeptets, offsetDelta + 1,
                           [score |-> tryScore(tryText, textSeptets), text |-> tryText])
           ELSE bestOffset(fullRunes, udhSeptets, textSeptets, offsetDelta + 1, best)

UdResult(o, e, t, h) == [out |-> o, err |-> e, text |-> t, udh |-> h]

\* decodeUserData, 7-bit text after a header. Decode7Bit of a negative length
\* stops the program: make([]byte, 0, length) in unpack7Bit when there is
\* data, result.Grow(length) otherwise.
decode7BitAfterUDH(dataBytes, textData, udl, udhLen, udh) ==
  LET udhBits == udhLen * 8
      padding == IF 7 - (udhBits % 7) = 7 THEN 0 ELSE 7 - (udhBits % 7)
      udhSeptets == (udhBits + padding) \div 7
      textSeptets == udl - udhSeptets
      best == bestOffset(Decode7Bit(dataBytes, udl), udhSeptets, textSeptets, -5,
                         [score |-> -1, text |-> <<>>])
      shiftedData == IF padding > 0 /\ textData # <<>> THEN shiftRight(textData, padding)
                     ELSE textData
      shiftText == Decode7Bit(shiftedData, textSeptets)
  IN  IF textSeptets < 0
      THEN UdResult("panic", "negative length", NoUserText, <<>>)
      ELSE UdResult("ok", "nil",
                    [NoUserText EXCEPT !.gsm = IF letterScore(shiftText) > best.score
                                               THEN shiftText ELSE best.text],
                    udh)

\* decodeUserData: the header, when the first octet says there is one, and the
\* text in the encoding of the data coding scheme.
decodeUserData(userData, udl, encoding, hasUDH) ==
  LET b == HexToBytes(userData)
      dataBytes == b.bytes
      withUDH == hasUDH /\ dataBytes # <<>>
      udhLen == IF withUDH THEN dataBytes[1] + 1 ELSE 0
      udh == IF withUDH THEN SubSeq(dataBytes, 1, udhLen) ELSE <<>>
      textData == IF withUDH THEN SubSeq(dataBytes, udhLen + 1, Len(dataBytes))
                  ELSE dataBytes
  IN  IF b.err THEN UdResult("error", "invalid hex string", NoUserText, <<>>)
      ELSE IF withUDH /\ Len(dataBytes) < udhLen
      THEN UdResult("error", "invalid UDH length", NoUserText, <<>>)
      ELSE IF encoding = "Encoding7Bit"
      THEN IF hasUDH /\ udhLen > 0
           THEN decode7BitAfterUDH(dataBytes, textData, udl, udhLen, udh)
           ELSE UdResult("ok", "nil",
                         [NoUserText EXCEPT !.gsm = Decode7Bit(textData, udl)], udh)
      ELSE IF encoding = "Encoding8Bit"
      THEN UdResult("ok", "nil", [NoUserText EXCEPT !.raw = textData], udh)
      ELSE UdResult("ok", "nil", [NoUserText EXCEPT !.ucs2 = DecodeUCS2(textData)], udh)

\* parseUDH, the loop from the byte udh[i] on: the reference, the number of
\* parts and the part of a concatenation element.
RECURSIVE parseUDH(_, _, _)
parseUDH(udh, i, msg) ==
  IF i >= Len(udh) \/ i + 1 >= Len(udh) THEN msg
  ELSE LET iei == udh[i + 1]
           iedl == udh[i + 2]
       IN  IF i + 2 + iedl > Len(udh) THEN msg
           ELSE parseUDH(udh, i + 2 + iedl,
                  IF iei = 0 /\ iedl = 3
                  THEN [msg EXCEPT !.Reference = udh[i + 3], !.Parts = udh[i + 4],
                                   !.Part = udh[i + 5]]
                  ELSE IF iei = 8 /\ iedl = 4
                  THEN [msg EXCEPT !.Reference = udh[i + 4], !.Parts = udh[i + 5],
                                   !.Part = udh[i + 6]]
                  ELSE msg)

\* The encoding of a data coding scheme.
EncodingOf(dcs) ==
  IF (dcs \div 4) % 4 = 2 THEN "EncodingUCS2"
  ELSE IF (dcs \div 4) % 2 = 1 THEN "Encoding8Bit" ELSE "Encoding7Bit"

\* The end of decodeDeliver and of decodeSubmit: the user data, from offset on.
decodeTail(pdu, offset, udl, hasUDH, msg) ==
  IF Len(pdu) < offset THEN Fails("PDU too short for user data")
  ELSE LET u == decodeUserData(Slice(pdu, offset, Len(pdu)), udl, msg.Encoding, hasUDH)
           withText == [msg EXCEPT !.Text = u.text, !.UDH = u.udh]
       IN  IF u.out = "panic" THEN Panics(u.err)
           ELSE IF u.out = "error" THEN Fails(u.err)
           ELSE Returns(IF u.udh # <<>> THEN parseUDH(u.udh, 1, withText) ELSE withText)

\* decodeDeliver: address length, address type, address, protocol identifier,
\* data coding scheme, timestamp, length of the user data, user data.
decodeDeliver(pdu, hasUDH, msg) ==
  IF ~InRange(pdu, 0, 2) \/ ~InRange(pdu, 2, 4) THEN OutOfRange
  ELSE LET addrLen == parseHexByte(Slice(pdu, 0, 2))
           addrType == parseHexByte(Slice(pdu, 2, 4))
           addrHexLen == (addrLen + 1) \div 2
           afterAddr == 4 + (addrHexLen * 2)
           atDcs == afterAddr + 2
           atTime == atDcs + 2
           atUdl == atTime + 14
       IN  IF Len(pdu) < afterAddr THEN Fails("PDU too short for address")
           ELSE IF ~InRange(pdu, atDcs, atDcs + 2) THEN OutOfRange
           ELSE IF Len(pdu) < atTime + 14 THEN Fails("PDU too short for timestamp")
           ELSE IF ~InRange(pdu, atUdl, atUdl + 2) THEN OutOfRange
           ELSE LET dcs == parseHexByte(Slice(pdu, atDcs, atDcs + 2))
                IN  decodeTail(pdu, atUdl + 2, parseHexByte(Slice(pdu, atUdl, atUdl + 2)),
                      hasUDH,
                      [msg EXCEPT
                         !.PhoneNumber =
                            DecodePhoneNumber(Slice(pdu, 4, afterAddr), addrType),
                         !.Encoding = EncodingOf(dcs),
                         !.Flash = (dcs \div 16) % 2 = 1,
                         !.Timestamp = decodeTimestamp(Slice(pdu, atTime, atTime + 14))])

\* decodeSubmit: the message reference is skipped; then address length, address
\* type, address, protocol identifier, data coding scheme, validity period when
\* the first octet says there is one, length of the user data, user data.
decodeSubmit(pdu, hasUDH, hasVP, msg) ==
  IF ~InRange(pdu, 2, 4) \/ ~InRange(pdu, 4, 6) THEN OutOfRange
  ELSE LET addrLen == parseHexByte(Slice(pdu, 2, 4))
           addrType == parseHexByte(Slice(pdu, 4, 6))
           addrHexLen == (addrLen + 1) \div 2
           afterAddr == 6 + (addrHexLen * 2)
           atDcs == afterAddr + 2
           atVp == atDcs + 2
           atUdl == IF hasVP THEN atVp + 2 ELSE atVp
       IN  IF Len(pdu) < afterAddr THEN Fails("PDU too short for address")
           ELSE IF ~InRange(pdu, atDcs, atDcs + 2) THEN OutOfRange
           ELSE IF hasVP /\ ~InRange(pdu, atVp, atVp + 2) THEN OutOfRange
           ELSE IF ~InRange(pdu, atUdl, atUdl + 2) THEN OutOfRange
           ELSE LET dcs == parseHexByte(Slice(pdu, atDcs, atDcs + 2))
                IN  decodeTail(pdu, atUdl + 2, parseHexByte(Slice(pdu, atUdl, atUdl + 2)),
                      hasUDH,
                      [msg EXCEPT
                         !.PhoneNumber =
                            DecodePhoneNumber(Slice(pdu, 6, afterAddr), addrType),
                         !.Encoding = EncodingOf(dcs),
                         !.Flash = (dcs \div 16) % 2 = 1,
                         !.ValidityPeriod =
                            IF hasVP THEN parseHexByte(Slice(pdu, atVp, atVp + 2))
                            ELSE 0])

\* Decode: the service centre address, the first octet and, by the type of the
\* message, decodeDeliver or decodeSubmit.
Decode(pduStr) ==
  LET p == ToUpper(TrimSpace(pduStr))
  IN  IF ~InRange(p, 0, 2) THEN OutOfRange
      ELSE LET smscLen == parseHexByte(Slice(p, 0, 2))
               offset == 2 + (smscLen * 2)
           IN  IF smscLen = 0 /\ Slice(p, 0, 2) # <<"0", "0">>
               THEN Fails("invalid SMSC length")
               ELSE IF Len(p) < offset THEN Fails("PDU too short")
               ELSE IF ~InRange(p, offset, offset + 2) THEN OutOfRange
               ELSE LET smsc == IF smscLen > 0
                                THEN DecodePhoneNumber(Slice(p, 4, offset),
                                                       parseHexByte(Slice(p, 2, 4)))
                                ELSE <<>>
                        pduType == parseHexByte(Slice(p, offset, offset + 2))
                        msgType == CASE pduType % 4 = 1 -> "MessageTypeSMSSubmit"
                                     [] pduType % 4 = 2 -> "MessageTypeSMSStatusReport"
                                     [] OTHER -> "MessageTypeSMSDeliver"
                        hasUDH == (pduType \div 64) % 2 = 1
                        hasVP == (pduType \div 16) % 2 = 1
                        msg == [NoMsg EXCEPT !.Type = msgType, !.SMSC = smsc]
                        rest == Slice(p, offset + 2, Len(p))
                    IN  IF msgType = "MessageTypeSMSDeliver"
                        THEN decodeDeliver(rest, hasUDH, msg)
                        ELSE IF msgType = "MessageTypeSMSSubmit"
                        THEN decodeSubmit(rest, hasUDH, hasVP, msg)
                        ELSE Fails("unsupported message type")

\* The PDUs handed to Decode: the SMS-DELIVER and the SMS-SUBMIT of the tests
\* and an SMS-DELIVER with the header of a concatenated message before 7-bit
\* text, each cut off after every number of characters, the empty string
\* among them; the last one with a user data length shorter than its header;
\* a status report; the first in lower case between spaces; one that is no
\* hexadecimal string.
DeliverPdu ==
  <<"0", "7", "9", "1", "1", "3", "2", "6", "0", "4", "0", "0", "0", "0", "F", "0",
    "0", "4", "0", "B", "9", "1", "1", "3", "4", "6", "6", "1", "0", "0", "8", "9",
    "F", "6", "0", "0", "0", "0", "2", "0", "8", "0", "6", "2", "9", "1", "7", "3",
    "1", "4", "0", "8", "0", "C", "C", "8", "3", "2", "9", "B", "F", "D", "0", "6">>
SubmitPdu ==
  <<"0", "0", "1", "1", "0", "0", "0", "D", "9", "1", "6", "8", "3", "1", "0", "8",
    "1", "0", "8", "3", "0", "0", "F", "0", "0", "0", "0", "8", "A", "7", "0", "C",
    "4", "F", "6", "0", "5", "9", "7", "D", "F", "F", "0", "C", "4", "E", "1", "6",
    "7", "5", "4", "C", "F", "F", "0", "1">>
ConcatPdu ==
  <<"0", "0", "4", "4", "0", "B", "9", "1", "1", "3", "4", "6", "6", "1", "0", "0",
    "8", "9", "F", "6", "0", "0", "0", "0", "2", "0", "8", "0", "6", "2", "9", "1",
    "7", "3", "1", "4", "0", "8", "0", "9", "0", "5", "0", "0", "0", "3", "0", "1",
    "0", "2", "0", "1", "9", "0", "6", "9">>
Prefixes(s) == {SubSeq(s, 1, n) : n \in 0..Len(s)}
ShortUdl(s) == [s EXCEPT ![40] = "2"]
LowerOf(c) ==
  CASE c = "A" -> "a" [] c = "B" -> "b" [] c = "C" -> "c"
    [] c = "D" -> "d" [] c = "E" -> "e" [] c = "F" -> "f" [] OTHER -> c
Pdus ==
  Prefixes(DeliverPdu) \cup Prefixes(SubmitPdu) \cup Prefixes(ConcatPdu)
    \cup {ShortUdl(ConcatPdu),
          <<"0", "0", "0", "2">> \o SubSeq(SubmitPdu, 5, Len(SubmitPdu)),
          <<" ">> \o [i \in 1..Len(DeliverPdu) |-> LowerOf(DeliverPdu[i])] \o <<" ">>,
          <<"Z", "Z">> \o Tail(Tail(DeliverPdu)),
          SubSeq(DeliverPdu, 1, 62) \o <<"Z", "Z">>}

NotDecoded == [out |-> "none", err |-> "nil", msg |-> NoMsg]

DecodeInit ==
  /\ DevInit /\ SmsIdle /\ ColIdle /\ tx = NoTx
  /\ \E p \in Pdus : enc = [f |-> "pdu", in |-> p, res |-> NotDecoded]

DecodeCall ==
  /\ enc.f = "pdu"
  /\ enc' = [enc EXCEPT !.f = "pdu decoded", !.res = Decode(enc.in)]

DecodeNext == DecodeCall /\ UNCHANGED <<devVars, smsVars, colVars, tx>>

DecodeSpec == DecodeInit /\ [][DecodeNext]_vars

\* ---------------------------------------------------------------- user data
\* BytesToHex: two upper-case hexadecimal digits a byte.
RECURSIVE BytesToHex(_)
BytesToHex(bytes) ==
  IF bytes = <<>> THEN <<>> ELSE Sprintf02X(Head(bytes)) \o BytesToHex(Tail(bytes))

\* The headers of the user data handed to decodeUserData: a concatenation
\* element with an 8-bit reference (6 octets, one fill bit before the text) and
\* one with a 16-bit reference (7 octets, no fill bit).
UdHeaders == { <<5, 0, 3, 1, 2, 1>>, <<6, 8, 4, 0, 1, 2, 1>> }

\* The texts after the header: up to three characters, a letter, the letter M
\* and a digit.
UdRunes == {"a", "M", "1"}
UdTexts == SeqsUpTo(UdRunes, 3)

\* The septets a header takes: its bits and the fill bits, by seven.
HeaderSeptets(udh) == ((Len(udh) * 8) + 6) \div 7

\* The user data of a header and a 7-bit text: the header, then the text
\* packed from the first septet boundary after the header on.
WithHeader(udh, text) ==
  LET fill == [i \in 1..HeaderSeptets(udh) |-> 0]
      packed == pack7Bit(fill \o encodeSeptets(text, 1, <<>>).septets)
  IN  udh \o SubSeq(packed, Len(udh) + 1, Len(packed))

UdInit ==
  /\ DevInit /\ SmsIdle /\ ColIdle /\ tx = NoTx
  /\ \E h \in UdHeaders : \E t \in UdTexts :
       enc = [f |-> "user data", udh |-> h, text |-> t,
              in |-> BytesToHex(WithHeader(h, t)), udl |-> HeaderSeptets(h) + Len(t),
              res |-> UdResult("none", "nil", NoUserText, <<>>)]

decodeUserDataCall ==
  /\ enc.f = "user data"
  /\ enc' = [enc EXCEPT !.f = "user data decoded",
                        !.res = decodeUserData(enc.in, enc.udl, "Encoding7Bit", TRUE)]

UdNext == decodeUserDataCall /\ UNCHANGED <<devVars, smsVars, colVars, tx>>

UdSpec == UdInit /\ [][UdNext]_vars

\* ---------------------------------------------------------------- framing
\* The bytes of the streams the port delivers: a letter, a blank, CR and LF.
StreamBytes == {"A", " ", "\r", "\n"}
Streams == SeqsUpTo(StreamBytes, MaxStream)

\* The place of the first LF of a string, 0 when it has none.
IndexLF(s) ==
  IF \E i \in 1..Len(s) : s[i] = "\n"
  THEN CHOOSE i \in 1..Len(s) : s[i] = "\n" /\ \A j \in 1..(i - 1) : s[j] # "\n"
  ELSE 0

FrameInit ==
  /\ DevInit /\ SmsIdle /\ ColIdle /\ tx = NoTx
  /\ \E b \in Streams : enc = [f |-> "stream", in |-> b, read |-> 0, frames |-> <<>>]

\* One turn of the loop of readAndDispatch on the bytes not read yet:
\* reader.ReadString('\n') returns the bytes up to the next LF and the LF;
\* strings.TrimSpace; an empty line is skipped, another one goes on to the
\* classifier. Without an LF in the rest of the stream ReadString waits.
ReadString ==
  /\ enc.f = "stream"
  /\ LET rest == SubSeq(enc.in, enc.read + 1, Len(enc.in))
         n == IndexLF(rest)
         line == TrimSpace(SubSeq(rest, 1, n))
     IN  /\ n > 0
         /\ enc' = [enc EXCEPT !.read = @ + n,
                               !.frames = IF line = <<>> THEN @ ELSE Append(@, line)]

FrameNext == ReadString /\ UNCHANGED <<devVars, smsVars, colVars, tx>>

FrameSpec == FrameInit /\ [][FrameNext]_vars

\* ---------------------------------------------------------------- response sets
\* A ResponseSet: its eleven string fields in their order, and CustomFinal.
\* rs.GetAllResponses(): the string fields that are not "", then CustomFinal
\* as it is.
ResponseSet_GetAllResponses(rs) ==
  SelectSeq(rs.fields, LAMBDA v : v # <<>>) \o rs.CustomFinal

\* Mutant of ResponseSet_IsFinal: the token is not tested against "".
ResponseSet_IsFinal_EmptyToken(rs, line) ==
  \E i \in 1..Len(ResponseSet_GetAllResponses(rs)) :
     HasPrefix(line, ResponseSet_GetAllResponses(rs)[i])

\* rs.IsFinal(line): some token of GetAllResponses is not "" and a prefix of
\* the line.
ResponseSet_IsFinal(rs, line) ==
  \E i \in 1..Len(ResponseSet_GetAllResponses(rs)) :
     /\ ResponseSet_GetAllResponses(rs)[i] # <<>>
     /\ HasPrefix(line, ResponseSet_GetAllResponses(rs)[i])

\* The response sets: the default one, with OK or the prompt set to "" or
\* not, and with a CustomFinal of no token, of "", of "+X", of both.
ResponseSets ==
  { [fields |-> [DefaultResponses EXCEPT ![1] = ok, ![11] = prompt], CustomFinal |-> cf] :
      ok \in {<<"O", "K">>, <<>>}, prompt \in {<<">">>, <<>>},
      cf \in {<<>>, << <<>> >>, << <<"+", "X">> >>, << <<>>, <<"+", "X">> >>} }

FinalLines ==
  { <<"O", "K">>, <<"O", "K", "A", "Y">>, <<"O">>, <<>>,
    <<"+", "C", "S", "Q", ":", " ", "1", "5", ",", "0">>,
    <<">", " ">>, <<"+", "X", "Y">>, <<" ", "O", "K">>,
    <<"+", "C", "M", "E", " ", "E", "R", "R", "O", "R", ":", " ", "1">> }

FinalInit ==
  /\ DevInit /\ SmsIdle /\ ColIdle /\ tx = NoTx
  /\ \E rs \in ResponseSets : \E l \in FinalLines :
       enc = [f |-> "line", rs |-> rs, in |-> l, out |-> FALSE]

IsFinalCall ==
  /\ enc.f = "line"
  /\ enc' = [enc EXCEPT !.f = "classified", !.out = ResponseSet_IsFinal(enc.rs, enc.in)]

FinalNext == IsFinalCall /\ UNCHANGED <<devVars, smsVars, colVars, tx>>

FinalSpec == FinalInit /\ [][FinalNext]_vars

\* ---------------------------------------------------------------- properties
\* The caller is between m.mu.Lock() having returned and its SendCommand returning.
InSection(c) ==
  pc[c] \in {"drain", "store", "wcheck", "write", "writing", "await", "unstore", "unlock"}

\* The caller's SendCommand has chosen its return values; the deferred calls run.
Returning(c) == pc[c] \in {"unstore", "unlock"}

\* The lines are in arrival order: their arrival indexes increase.
InArrivalOrder(lines) ==
  \A i, j \in 1..Len(lines) : i < j => lines[i].id < lines[j].id

\* C1: at most one caller is between "lock acquired" and "return"; only that
\* caller is inside port.Write, so the bytes of two commands never interleave
\* and the next command is written only after the previous call has returned.
C1_MutualExclusion ==
  /\ Cardinality({c \in Callers : InSection(c)}) <= 1
  /\ Cardinality(writers) <= 1
  /\ \A c \in writers : InSection(c) /\ mu = c

C1_Witness ==
  \E c, d \in Callers : c # d /\ pc[c] = "writing" /\ pc[d] = "lock"

\* C2: a SendCommand invoked after a Close() has returned fails with "device
\* closed", returns no lines and never reaches port.Write; SendCommandExpect and
\* SimpleQuery pass that error on.
C2_TerminalClose ==
  \A c \in Callers :
    afterClose[c] =>
      /\ pc[c] = "done"
      /\ result[c] = [err |-> "closed", lines |-> <<>>]
      /\ nWrites[c] = 0 /\ c \notin writers
      /\ SendCommandExpect(result[c], <<"O", "K">>) = "closed"
      /\ SimpleQuery(result[c]) = [line |-> <<>>, err |-> "closed"]

C2_Witness ==
  \E c \in Callers : afterClose[c] /\ pc[c] = "done" /\ result[c].err = "closed"

\* C3: in every interleaving of Close() calls the flag goes from false to true
\* once and never back, exactly one call closes the channel and the port (each
\* once), every other call returns nil without side effects, and IsOpen() is
\* false from the first Close on.
C3_StateOk ==
  LET winners == {k \in Closers : kpc[k] \in {"closeChan", "closePort", "done"}}
  IN  /\ Cardinality(winners) <= 1
      /\ closed = (\E k \in Closers : kpc[k] # "idle")
      /\ IsOpen = (\A k \in Closers : kpc[k] = "idle")
      /\ nChanClose = IF \E k \in Closers : kpc[k] \in {"closePort", "done"} THEN 1 ELSE 0
      /\ nPortClose = IF \E k \in Closers : kpc[k] = "done" THEN 1 ELSE 0
      /\ chanClosed = (nChanClose = 1)
      /\ \A k \in Closers : kpc[k] # "panic"

C3_CloseIdempotent ==
  /\ []C3_StateOk
  /\ [][(closed => closed') /\ nChanClose' >= nChanClose /\ nPortClose' >= nPortClose]_vars

C3_Witness ==
  /\ \E k \in Closers : kpc[k] = "done"
  /\ \E k \in Closers : kpc[k] = "donenil"
  /\ nChanClose = 1 /\ nPortClose = 1 /\ ~IsOpen

C5_TimeoutOutcome ==
  /\ \A c \in Callers :
       (Returning(c) /\ result[c].err = "timeout") =>
          /\ timer[c]
          /\ result[c].lines = responses[c]
          /\ \A i \in 1..Len(responses[c]) : ~IsFinal(responses[c][i].txt)
          /\ InArrivalOrder(result[c].lines)
          /\ nWrites[c] = 1
  /\ \A c \in Callers : (pc[c] = "done" /\ result[c].err = "timeout") => nWrites[c] = 1
  /\ \A c \in Callers : (pc[c] = "await" /\ timer[c] /\ ~crashed) => ENABLED Timeout(c)
  /\ \A c \in Callers : pc[c] = "done" => mu # c
  /\ (\A c \in Callers : ~InSection(c)) => mu = None

C5_Witness ==
  \E c, d \in Callers :
     /\ c # d /\ pc[d] = "lock"
     /\ pc[c] = "unlock" /\ result[c].err = "timeout" /\ Len(result[c].lines) >= 1

C7_EveryCallReturns ==
  \A c \in Callers : (pc[c] \notin {"idle", "done"}) ~> (pc[c] = "done")

\* C8 as stated: in the state right after a SendCommand has returned, with any
\* outcome, the response queue is empty.
C8_Original ==
  [][\A c \in Callers : (pc[c] # "done" /\ pc'[c] = "done") => responseChan' = <<>>]_vars

\* C8 as amended: in the state right after a SendCommand has returned without
\* error, the response queue holds no line that arrived before the final-result
\* line it returned or is that line: only lines that arrived after it.
C8_NoOlderLineQueued ==
  [][\A c \in Callers :
       (pc[c] = "unlock" /\ pc'[c] = "done" /\ result[c].err = "nil") =>
          \A i \in 1..Len(responseChan') :
             responseChan'[i].id > result[c].lines[Len(result[c].lines)].id]_vars

C8_Witness ==
  \E c \in Callers :
     pc[c] = "done" /\ result[c].err = "nil" /\ responseChan # <<>>

\* C9: every non-empty trimmed line read from the port ends in exactly one of
\* the response queue, the URC handler, or the discard branch; a line handed to
\* the handler is one classified as URC, and a line is discarded only when it
\* was not.
C9_RoutingPartition ==
  (rline.id # 0 /\ rpc \notin {"classify", "send"}) =>
     /\ fate.queued + fate.handled + fate.dropped = 1
     /\ fate.handled = 1 => \E i \in 1..Len(GetAllNotifications) :
                               HasPrefix(rline.txt, GetAllNotifications[i])

\* C10: a line starting with a token of the default final-result set that
\* arrives while a SendCommand is waiting is delivered to that SendCommand and
\* not to the URC handler.
C10_FinalLineEndsWait ==
  (rline.id # 0 /\ fate.aw /\ IsFinal(rline.txt)) => fate.handled = 0

\* The first prefix of the default URC set, in the set's order, that the
\* reader's line starts with ("" when it starts with none).
LinePrefix == FirstPrefix(rline.txt, GetAllNotifications)

\* The reader takes its classification step on a line, with a value stored in cmd.
Classifying == rpc = "classify" /\ rpc' # "classify" /\ cmd.ok

C12_ErrorsNeverUrc ==
  (rline.id # 0 /\ (HasPrefix(rline.txt, CMEError) \/ HasPrefix(rline.txt, CMSError))) =>
     IsFinal(rline.txt) /\ fate.handled = 0

\* C13: a line +CMTI: "SM",3 that the reader classifies while no SendCommand is
\* in progress, right after New included, starts the URC handler once, with the
\* label +CMTI and the parameters SM and 3, leaves the response queue as it is,
\* and the reader goes on with its loop.
C13_QuiescentUrc ==
  [][(/\ rpc = "classify" /\ rpc' # "classify"
      /\ rline.txt = <<"+", "C", "M", "T", "I", ":", " ", "\"", "S", "M", "\"", ",", "3">>
      /\ \A c \in Callers : pc[c] \in {"idle", "done"}) =>
        /\ rpc' = "top" /\ ~crashed'
        /\ nUrc' = nUrc + 1 /\ fate'.handled = 1
        /\ responseChan' = responseChan
        /\ parseParam(rline.txt) =
             [label |-> <<"+", "C", "M", "T", "I">>,
              param |-> << <<"S", "M">>, <<"3">> >>, nil |-> FALSE]]_vars

\* C14: once a URC handler has been started (no handler ever returns here), a
\* line that the reader reads afterwards is still classified and routed: the
\* reader does not stop on it.
C14_SlowHandlerNoBlock ==
  (nUrc > 0 /\ rline.id # 0 /\ fate.handled = 0) => rpc # "panic"

\* What the terminator rule says is written for the command text t.
Terminated(t) ==
  IF t # <<>> /\ t[Len(t)] \in {"\r", "\n", "SUB", "ESC"} THEN t ELSE t \o <<"\r", "\n">>

\* C15: the text SendCommand records and hands to port.Write is the command
\* unchanged when it ends with CR, LF, CRLF, 0x1A or 0x1B, and the command
\* followed by CR LF otherwise; nothing else is added or removed on the way to
\* the port.
C15_TerminatorRule ==
  /\ [][\A c \in Callers :
          (pc[c] = "store" /\ pc'[c] = "wcheck") =>
             arg'[c] = Terminated(arg[c]) /\ cmd'.s = arg'[c]]_vars
  /\ [][\A c \in Callers :
          (pc[c] \in {"wcheck", "write"} /\ pc'[c] \in {"write", "writing"}) =>
             arg'[c] = arg[c]]_vars

C15_Witness ==
  /\ pc[1] = "writing" /\ arg[1] = <<"A", "T", "SUB">>
  /\ nCalls = 2

\* C16: when port.Write reports fewer bytes than the command has, or an error,
\* SendCommand fails with the incomplete-write or the write error, without
\* lines and without having waited for a response; when it returns the lock is
\* free and the current command is "".
C16_IncompleteWrite ==
  /\ [](\A c \in Callers : \A o \in {"short", "err"} :
          (pc[c] = "writing" /\ ~crashed) =>
             /\ ENABLED WriteEnd(c, o)
             /\ ~ENABLED (/\ WriteEnd(c, o)
                          /\ ~(/\ pc'[c] = "unstore"
                               /\ result'[c] = [err |-> IF o = "short" THEN "incomplete"
                                                                       ELSE "write",
                                                lines |-> <<>>])))
  /\ [](\A c \in Callers :
          (Returning(c) /\ result[c].err \in {"incomplete", "write"}) =>
             /\ result[c].lines = <<>> /\ responses[c] = <<>>
             /\ nWrites[c] = 1 /\ mu = c)
  /\ [][\A c \in Callers :
          (pc[c] = "unlock" /\ pc'[c] = "done"
             /\ result[c].err \in {"incomplete", "write"}) =>
               mu' = None /\ cmd' = [ok |-> TRUE, s |-> <<>>]]_vars

C16_Witness ==
  \E c, d \in Callers :
     /\ c # d /\ pc[c] = "done" /\ result[c].err = "incomplete"
     /\ pc[d] = "drain" /\ mu = d

\* The event is the port write of the payload, of the AT+CMGS command, of segment i.
IsPduWrite(ev, i) == ev.e = "write" /\ ev.data = PduText(i)
IsCmgsWrite(ev, i) == ev.e = "write" /\ ev.data = CmgsText(i) \o <<"\r", "\n">>

\* The event is a return of SendCommand without error whose lines include one
\* with the character ">".
IsPromptReturn(ev) ==
  /\ ev.e = "return" /\ ev.err = "nil"
  /\ \E k \in 1..Len(ev.lines) : \E n \in 1..Len(ev.lines[k]) : ev.lines[k][n] = ">"

\* The event is a return of SendCommand that timed out, or whose last line is
\* an error final.
ErrorFinals ==
  { <<"E", "R", "R", "O", "R">>, CMEError, CMSError,
    <<"+", "C", "I", "S", " ", "E", "R", "R", "O", "R">> }

IsErrorReturn(ev) ==
  /\ ev.e = "return"
  /\ \/ ev.err = "timeout"
     \/ /\ ev.err = "nil" /\ ev.lines # <<>>
        /\ \E f \in ErrorFinals : HasPrefix(ev.lines[Len(ev.lines)], f)

\* C17: the payload of a segment is written only right after the AT+CMGS
\* command of that segment has been written and has returned lines with ">";
\* after an AT+CMGS command that ended with an error final or timed out, and
\* after a payload command that failed, nothing more is written and SendSmsPdu
\* returns the error; the segments are written in ascending order, each
\* command once.
C17_PduAfterPrompt ==
  /\ \A j \in 1..Len(events) : \A i \in Segments :
       IsPduWrite(events[j], i) =>
          /\ j >= 3
          /\ IsPromptReturn(events[j - 1])
          /\ IsCmgsWrite(events[j - 2], i)
  /\ \A j \in 1..Len(events) :
       (IsErrorReturn(events[j])
          /\ j > 1 /\ \E i \in Segments : IsCmgsWrite(events[j - 1], i)) =>
             j = Len(events) /\ sms.pc = "ret" /\ sms.err \notin {"nil", "none"}
  /\ \A j \in 1..Len(events) :
       (events[j].e = "return" /\ events[j].err # "nil") =>
          j = Len(events) /\ sms.pc = "ret" /\ sms.err = events[j].err
  /\ \A j \in 1..Len(events) :
       events[j].e = "write" =>
          \E i \in Segments :
             /\ IsPduWrite(events[j], i) \/ IsCmgsWrite(events[j], i)
             /\ i <= sms.seg
             /\ \A k \in 1..(j - 1) : \A h \in Segments :
                  (IsPduWrite(events[k], h) => h < i)
                  /\ (IsCmgsWrite(events[k], h) =>
                        h < i \/ (h = i /\ IsPduWrite(events[j], i)))

\* The step hands a segment of a group to Collect and it is not a duplicate.
NewSegment ==
  /\ out' # out \/ pipes' # pipes
  /\ HasConcat(out'.t)
  /\ ~\E s \in Group(pipes, Key(out'.t)) : s.seq = out'.t.seq

\* The list holds the segments 1..total of one group, in this order.
CompleteList(l) ==
  /\ l # <<>> /\ Len(l) = l[1].total
  /\ \A i \in 1..Len(l) : l[i].seq = i /\ Key(l[i]) = Key(l[1])

\* C18: Collect returns the empty result for each of the first total-1
\* distinct segments of a group, in whatever order they arrive, and for the
\* last one the list of all of them, by ascending sequence number; the group
\* then leaves the table, and its list is returned once only.
C18_EmitOnceWhenComplete ==
  /\ [][NewSegment =>
         LET t == out'.t
             g == Group(pipes, Key(t)) \cup {t}
         IN  /\ out'.err = "nil"
             /\ IF Cardinality(g) < t.total
                THEN /\ out'.segs = <<>>
                     /\ pipes' = pipes \cup {t}
                     /\ emits' = emits
                ELSE /\ CompleteList(out'.segs)
                     /\ {out'.segs[i] : i \in 1..Len(out'.segs)} = g
                     /\ Group(pipes', Key(t)) = {}
                     /\ pipes' = pipes \ g
                     /\ emits' = Append(emits, out'.segs)]_vars
  /\ [](/\ \A i \in 1..Len(emits) : CompleteList(emits[i])
        /\ \A i, j \in 1..Len(emits) : i # j => Key(emits[i][1]) # Key(emits[j][1])
        /\ \A i \in 1..Len(emits) : Group(pipes, Key(emits[i][1])) = {}
        /\ \A s \in pipes : Cardinality(Group(pipes, Key(s))) < s.total)

C18_Witness ==
  /\ Len(emits) = 2
  /\ Key(emits[1][1]) = <<"A", 1, 3>> /\ Key(emits[2][1]) = <<"B", 1, 2>>
  /\ emits[1][1].ud = "y" /\ emits[1][3].ud = "x"
  /\ \E s \in pipes : Key(s) = <<"A", 1, 2>> /\ s.seq = 2
  /\ out.segs = emits[2]

\* The TPDUs without a concatenation header.
Singles == {t \in Tpdus : ~HasConcat(t)}

\* C19: Collect of a message without concatenation information returns that
\* message alone and without error, and leaves the table of pending groups as
\* it was; it does so in every state of the table.
C19_SingleBypassesTable ==
  /\ [][out'.t \in Singles =>
          /\ out'.segs = <<out'.t>> /\ out'.err = "nil"
          /\ pipes' = pipes /\ emits' = emits /\ fed' = fed]_vars
  /\ [](\A t \in Singles :
          /\ ENABLED (CollectStep(t) /\ UNCHANGED <<devVars, smsVars, pduVars>>)
          /\ Collect(pipes, t).table = pipes
          /\ Collect(pipes, t).segs = <<t>>
          /\ Collect(pipes, t).err = "nil")

C19_Witness ==
  /\ out.t \in Singles /\ out.segs = <<out.t>> /\ out.t.ud = "y"
  /\ Cardinality(pipes) = 3 /\ Cardinality({Key(s) : s \in pipes}) = 2
  /\ Len(emits) = 1

\* The table holds a segment with the key and the sequence number of t.
Stored(table, t) == \E s \in Group(table, Key(t)) : s.seq = t.seq

\* The missing segments of the group of t, with user data u, by sequence number.
Missing(table, t, u) ==
  LET need == {q \in 1..t.total : ~\E s \in Group(table, Key(t)) : s.seq = q}
  IN  [i \in 1..Cardinality(need) |->
         [oa |-> t.oa, ref |-> t.ref, total |-> t.total, ud |-> u,
          seq |-> CHOOSE q \in need : Cardinality({r \in need : r < q}) = i - 1]]

\* Collect of the TPDUs of a list, one after the other: the return of the last call.
RECURSIVE CollectAll(_, _)
CollectAll(table, l) ==
  IF Len(l) = 1 THEN Collect(table, l[1])
  ELSE CollectAll(Collect(table, l[1]).table, Tail(l))

\* C20: Collect of a segment whose originator, reference, total and sequence
\* number are those of a segment stored in a pending group fails with
\* DuplicateSegment, returns no segment and leaves the table as it was, the
\* stored segment included; when the missing segments of the group arrive
\* afterwards, the group is returned complete, with the segments stored before.
C20_DuplicateRejected ==
  /\ [][(HasConcat(out'.t) /\ Stored(pipes, out'.t) /\ <<out', pipes'>> # <<out, pipes>>) =>
          /\ out'.err = "DuplicateSegment" /\ out'.segs = <<>>
          /\ pipes' = pipes /\ emits' = emits /\ fed' = fed]_vars
  /\ [](out.err = "DuplicateSegment" =>
          /\ Stored(pipes, out.t)
          /\ \A u \in UserData :
               LET rest == Missing(pipes, out.t, u)
                   r == CollectAll(pipes, rest)
               IN  /\ rest # <<>>
                   /\ r.err = "nil" /\ CompleteList(r.segs)
                   /\ Group(pipes, Key(out.t)) \subseteq {r.segs[i] : i \in 1..Len(r.segs)}
                   /\ Group(r.table, Key(out.t)) = {})
  /\ [][(out.err = "DuplicateSegment" /\ HasConcat(out'.t) /\ Key(out'.t) = Key(out.t)
          /\ ~Stored(pipes, out'.t) /\ Cardinality(Group(pipes, Key(out.t))) = out.t.total - 1) =>
             /\ CompleteList(out'.segs) /\ out'.err = "nil"
             /\ Group(pipes, Key(out.t)) \subseteq {out'.segs[i] : i \in 1..Len(out'.segs)}]_vars

C20_Witness ==
  /\ out.err = "DuplicateSegment" /\ out.segs = <<>>
  /\ Key(out.t) = <<"A", 1, 3>> /\ out.t.seq = 2 /\ out.t.ud = "y"
  /\ Group(pipes, Key(out.t)) =
       { [oa |-> "A", ref |-> 1, total |-> 3, seq |-> 2, ud |-> "x"],
         [oa |-> "A", ref |-> 1, total |-> 3, seq |-> 3, ud |-> "x"] }

\* The function of the deadline of group k leaves its critical section.
Expiring(k) == rt.mu = [who |-> "timer", key |-> k, i |-> 0] /\ rt'.mu # rt.mu

\* C21: when the deadline of a group elapses and the group is still
\* incomplete, the group is removed and the expiry callback is invoked once
\* with (reference, total, received); the mutex of the table is not held while
\* the callback runs, so that a Collect inside the callback goes through; a
\* group that completed before its deadline gets no callback: a group ends by
\* completion or by expiry, never by both.
C21_ReassemblyTimeout ==
  /\ [][\A k \in ExpiryKeys : Expiring(k) =>
          LET g == Group(pipes, k)
          IN  IF g # {}
              THEN /\ Cardinality(g) < k[3]
                   /\ pipes' = pipes \ g
                   /\ rt'.cbs = Append(rt.cbs, [ref |-> k[2], total |-> k[3],
                                                received |-> Cardinality(g), pc |-> "start"])
              ELSE pipes' = pipes /\ rt'.cbs = rt.cbs]_vars
  /\ [][(Len(rt'.cbs) # Len(rt.cbs) \/ (pipes \ pipes' # {} /\ emits' = emits))
          => \E k \in ExpiryKeys : Expiring(k)]_vars
  /\ [](/\ Len(rt.calls) = Cardinality({i \in 1..Len(rt.cbs) : rt.cbs[i].pc # "start"})
        /\ \A j \in 1..Len(rt.calls) :
             \E i \in 1..Len(rt.cbs) :
                rt.calls[j] = [ref |-> rt.cbs[i].ref, total |-> rt.cbs[i].total,
                               received |-> rt.cbs[i].received])
  /\ [](/\ rt.mu.who = "timer" => rt.timer[rt.mu.key] = "fired"
        /\ \A i \in 1..Len(rt.cbs) :
             /\ rt.cbs[i].pc = "collect" => rt.mu = [who |-> "cb", key |-> NoKey, i |-> i]
             /\ (rt.cbs[i].pc = "body" /\ rt.mu = Free) =>
                   ENABLED (CallbackCollect(i) /\ UNCHANGED <<devVars, smsVars, pduVars>>)
        /\ rt.mu.who \in {"caller", "cb"} => ENABLED (CollectLeave /\ UNCHANGED <<devVars, smsVars, pduVars>>)
        /\ rt.mu.who = "timer" =>
             ENABLED (TimerExpire(rt.mu.key) /\ UNCHANGED <<devVars, smsVars, pduVars>>))
  /\ [](\A j \in 1..Len(emits) : \A i \in 1..Len(rt.cbs) :
          ~(rt.cbs[i].ref = emits[j][1].ref /\ rt.cbs[i].total = emits[j][1].total))

C21_Witness ==
  /\ rt.calls = <<[ref |-> 1, total |-> 2, received |-> 1]>>
  /\ Len(rt.cbs) = 1 /\ rt.cbs[1].pc = "ret" /\ out.t = SingleTpdu
  /\ Len(emits) = 1 /\ emits[1][1].ref = 2
  /\ Group(pipes, <<"A", 1, 2>>) = {}

\* SendSMSText has returned nil: the whole message was sent.
Sent == tx.pc = "ret" /\ tx.err = "nil"

\* The user data of the k-th PDU sent: the characters of its slice.
Ud(k) == SubSeq(Text(tx.message), tx.sent[k].ud.from, tx.sent[k].ud.to)

CeilDiv(a, b) == (a + b - 1) \div b

\* C22: a GSM-7 payload of L septets goes out as one TPDU without header iff
\* L <= 160 and else as ceil(L/153) segments of at most 153 septets; a UCS-2
\* payload of U code units as one TPDU iff U <= 70 and else as ceil(U/67)
\* segments of at most 67 code units; a character of the extension table
\* counts two septets, a character outside the BMP two code units.
C22_SegmentThresholds ==
  Sent =>
    LET m == Text(tx.message)
        ucs2 == needsUCS2Encoding(m)
        size == IF ucs2 THEN Utf16Units(m) ELSE Septets(m)
        one == IF ucs2 THEN MaxUCS2SMSLength ELSE MaxSMSLength
        cap == IF ucs2 THEN MaxUCS2ConcatLength ELSE MaxConcatSMSLength
    IN  IF size <= one
        THEN Len(tx.sent) = 1 /\ ~tx.sent[1].udhi
        ELSE /\ Len(tx.sent) = CeilDiv(size, cap)
             /\ \A k \in 1..Len(tx.sent) :
                  (IF ucs2 THEN Utf16Units(Ud(k)) ELSE Septets(Ud(k))) <= cap

\* C23: a message that went out as N >= 2 segments has N <= 255, every segment
\* carries a header with one and the same reference and with the total N, and
\* the sequence numbers are 1, 2, ..., N in the order of emission.
C23_HeaderConsistency ==
  (Sent /\ Len(tx.sent) >= 2) =>
    LET N == Len(tx.sent)
    IN  /\ N <= 255
        /\ \A k \in 1..N :
             /\ tx.sent[k].udhi
             /\ tx.sent[k].udh = <<tx.sent[1].udh[1], N, k>>

\* The user data of the first k PDUs sent, one after the other.
RECURSIVE ConcatUd(_)
ConcatUd(k) == IF k = 0 THEN <<>> ELSE ConcatUd(k - 1) \o Ud(k)

\* C24: the payload parts of the emitted segments, put together in the order
\* of their sequence numbers, are the original payload: no character is
\* dropped, duplicated, reordered or cut in two. While the segments go out,
\* each one starts right after the one before it and none is empty.
C24_SegmentationLossless ==
  /\ Sent => ConcatUd(Len(tx.sent)) = Text(tx.message)
  /\ (tx.pc = "long" /\ tx.err = "none") =>
        /\ Len(tx.sent) = tx.i
        /\ \A k \in 1..Len(tx.sent) :
             /\ tx.sent[k].ud.from = IF k = 1 THEN 1 ELSE tx.sent[k - 1].ud.to + 1
             /\ tx.sent[k].ud.from <= tx.sent[k].ud.to
             /\ tx.sent[k].ud.to <= Len(Text(tx.message))

C24_Witness ==
  /\ Sent /\ Len(tx.sent) = 3 /\ Ud(3) = <<"[">>
  /\ tx.sent[1].udh[3] = 1 /\ tx.sent[3].udh[3] = 3

\* C25: a text of characters of the default and the extension table comes
\* back from Decode7Bit(Encode7Bit(s), n), n its number of septets; a septet
\* sequence comes back from unpack7Bit(pack7Bit(q), len(q)); the septets
\* 48 65 6C 6C 6F pack to C8 32 9B FD 06.
C25_Gsm7RoundTrip ==
  /\ enc.f = "decoded" => enc.out = enc.in
  /\ enc.f = "unpacked" => enc.out = enc.in
  /\ (enc.f = "packed" /\ enc.in = <<72, 101, 108, 108, 111>>) =>
        enc.data = <<200, 50, 155, 253, 6>>

\* The digits of a phone number that holds digits and at most a leading +.
DigitsOf(n) == IF n # <<>> /\ n[1] = "+" THEN Tail(n) ELSE n

\* C26: a phone number of digits, with or without a leading +, comes back from
\* DecodePhoneNumber(EncodePhoneNumber(n)), the + kept exactly when it was
\* there; the encoded form has even length and holds one F, the padding of the
\* last digit, exactly when the number of digits is odd; the address type is
\* international exactly when the number has a +.
C26_AddressRoundTrip ==
  /\ enc.f = "decoded" => enc.out = enc.in
  /\ enc.f \in {"encoded", "decoded"} =>
       LET d == DigitsOf(enc.in)
           fs == {i \in 1..Len(enc.data) : enc.data[i] = "F"}
       IN  /\ Len(enc.data) % 2 = 0
           /\ Len(enc.data) = Len(d) + (Len(d) % 2)
           /\ fs = IF Len(d) % 2 = 1 THEN {Len(enc.data) - 1} ELSE {}
           /\ SwapNibbles(enc.data) = IF Len(d) % 2 = 1 THEN Append(d, "F") ELSE d
           /\ (enc.typ = AddressTypeInternational) = (enc.in # <<>> /\ enc.in[1] = "+")
           /\ enc.typ \in {AddressTypeInternational, AddressTypeUnknown}

C26_Witness ==
  /\ enc.f = "decoded" /\ enc.in = <<"+", "1", "0", "9">>
  /\ enc.data = <<"0", "1", "F", "9">> /\ enc.typ = AddressTypeInternational
  /\ enc.out = <<"+", "1", "0", "9">>

\* C27: Decode returns a message or an error for every string, the empty one,
\* the ones cut off at any place and the one of an unknown message type
\* included; it never stops the program with an access out of range.
C27_MalformedPduYieldsError ==
  enc.f = "pdu decoded" => enc.res.out \in {"message", "error"}

\* C28: at the step in which a SendCommand enters port.Write the response
\* channel is empty: no line the reader queued before the write began is left
\* for the new command to collect.
C28_QueueEmptyAtWrite ==
  [][\A c \in Callers : pc[c] = "write" /\ pc'[c] = "writing" => responseChan = <<>>]_vars

\* C29: the response channel never holds more lines than its capacity; the
\* reader's send never waits, whether or not a SendCommand is receiving; and
\* when the channel is full the line is dropped, the channel is left as it is
\* and the reader goes on to its next line.
C29_BoundedNonBlockingQueue ==
  /\ [](Len(responseChan) <= ChanCap)
  /\ []((rpc = "send" /\ ~crashed) => ENABLED ReaderSend)
  /\ [][(rpc = "send" /\ rpc' # "send" /\ Len(responseChan) = ChanCap) =>
          /\ responseChan' = responseChan
          /\ fate'.dropped = fate.dropped + 1 /\ fate'.queued = fate.queued
          /\ rpc' = "top"]_vars

\* C30: when ReadString reports the end of the stream the reader exits, and an
\* exited reader reads no more; after any other error it goes back to the top
\* of its loop and reads again; at the top of its loop it exits once the device
\* is closed.
C30_ReaderTermination ==
  /\ [][(rpc = "read" /\ rerr' = "EOF") => rpc' = "exit"]_vars
  /\ [][rpc = "exit" => rpc' = "exit" /\ nRead' = nRead]_vars
  /\ [][(rpc = "read" /\ rerr' = "other") => rpc' = "top"]_vars
  /\ []((rpc = "top" /\ rerr = "other" /\ ~closed /\ ~crashed) =>
          ENABLED (ReaderTop /\ rpc' = "read"))
  /\ [][(rpc = "top" /\ closed /\ rpc' # "top") => rpc' = "exit"]_vars

\* The segments of a stream that CR or LF ends, trimmed, the empty ones left
\* out (a CRLF ends one segment: the empty one between CR and LF is left out).
RECURSIVE SegmentsOf(_, _)
SegmentsOf(s, cur) ==
  IF s = <<>> THEN <<>>
  ELSE IF Head(s) \in {"\r", "\n"}
       THEN (IF TrimSpace(cur) = <<>> THEN <<>> ELSE <<TrimSpace(cur)>>)
              \o SegmentsOf(Tail(s), <<>>)
       ELSE SegmentsOf(Tail(s), Append(cur, Head(s)))

\* C31: the lines handed to the classifier are the non-empty trimmed segments
\* of the bytes read so far that LF, CR or CRLF ends, in the order of the
\* stream; a segment that only a CR ends is a line of its own.
C31_LineFraming ==
  enc.f = "stream" => enc.frames = SegmentsOf(SubSeq(enc.in, 1, enc.read), <<>>)

\* The tokens configured in a response set: its fields and its CustomFinal.
Configured(rs) ==
  {rs.fields[i] : i \in 1..Len(rs.fields)} \cup {rs.CustomFinal[i] : i \in 1..Len(rs.CustomFinal)}

\* C32: IsFinal(L) is true exactly when L starts with a configured token that
\* is not ""; with the default set OK is final and +CSQ: 15,0 is not.
C32_FinalClassifier ==
  /\ enc.f = "classified" =>
       (enc.out = \E t \in Configured(enc.rs) : t # <<>> /\ HasPrefix(enc.in, t))
  /\ (enc.f = "classified" /\ enc.rs = [fields |-> DefaultResponses, CustomFinal |-> <<>>]) =>
       /\ enc.in = <<"O", "K">> => enc.out
       /\ enc.in = <<"+", "C", "S", "Q", ":", " ", "1", "5", ",", "0">> => ~enc.out
       /\ IsFinal(enc.in) = enc.out

C32_Witness ==
  /\ enc.f = "classified" /\ ~enc.out
  /\ enc.in = <<"+", "C", "S", "Q", ":", " ", "1", "5", ",", "0">>
  /\ enc.rs.CustomFinal = << <<>>, <<"+", "X">> >>

\* C33 as stated: L >= 1 septets are packed into B bytes with
\* 7*L <= 8*B < 7*(L+1).
C33_Original ==
  (enc.f = "packed" /\ Len(enc.in) >= 1) =>
     /\ 7 * Len(enc.in) <= 8 * Len(enc.data)
     /\ 8 * Len(enc.data) < 7 * (Len(enc.in) + 1)

\* C33, amended: L >= 1 septets are packed into B bytes with
\* 7*L <= 8*B < 7*L + 8, that is B = ceil(7*L/8).
C33_PackingBound ==
  (enc.f = "packed" /\ Len(enc.in) >= 1) =>
     /\ 7 * Len(enc.in) <= 8 * Len(enc.data)
     /\ 8 * Len(enc.data) < (7 * Len(enc.in)) + 8
     /\ Len(enc.data) = ((7 * Len(enc.in)) + 7) \div 8

C33_Witness == enc.f = "packed" /\ Len(enc.in) = 7 /\ Len(enc.data) = 7

\* The text of the septets of a user data field that follow its header: with
\* a header of UDHL + 1 octets and a length of UDL septets, the septets from
\* ceil((UDHL + 1) * 8 / 7) on.
TextAfterHeader(dataBytes, udl) ==
  LET skip == (((dataBytes[1] + 1) * 8) + 6) \div 7
  IN  decodeSeptets(SubSeq(unpack7Bit(dataBytes, udl), skip + 1, udl), 1, FALSE, <<>>)

\* C34: the text decoded from 7-bit user data with a header is the text of
\* the UDL - ceil((UDHL+1)*8/7) septets that follow the header and its fill
\* bits, whatever characters these septets are.
C34_DeterministicUdhDecoding ==
  enc.f = "user data decoded" =>
     /\ enc.res.out = "ok"
     /\ enc.res.text.gsm = TextAfterHeader(HexToBytes(enc.in).bytes, enc.udl)
     /\ enc.res.text.gsm = enc.text


\* C35: no send on a closed queue. In every interleaving of Close with the
\* reader, the reader never executes its send on the response channel once Close
\* has closed the channel: every step that leaves the reader's select statement
\* is taken with the channel open, so the reader does not panic there.
C35_NoSendOnClosedQueue ==
  [][(rpc = "send" /\ rpc' # "send") => ~chanClosed]_vars


\* C36: no write after close. Once a call of Close has closed the port and
\* returned, no SendCommand enters port.Write any more, whatever point the caller
\* had reached when Close ran.
C36_NoWriteAfterClose ==
  [][(\E k \in Closers : kpc[k] = "done")
       => \A c \in Callers : ~(pc[c] = "write" /\ pc'[c] = "writing")]_vars


\* C37: an SMS send is atomic on the wire. While SendSmsPdu sends a segment, no
\* other caller's command is handed to port.Write between the segment's AT+CMGS
\* command and its payload: not while SendSmsPdu is about to call SendCommand
\* with the payload, and not while that call has not written yet.
BetweenCommandAndPayload ==
  \/ sms.pc = "pdu"
  \/ sms.pc = "pduwait" /\ nWrites[1] = 0

C37_AtomicSmsSend ==
  [][(\E c \in Others : pc[c] = "write" /\ pc'[c] = "writing")
       => ~BetweenCommandAndPayload]_vars

\* C38: the temporary timeout extension is scoped. Once SendSmsPdu has returned,
\* Device.timeout is the configured value again, and a SendCommand of another
\* caller that waits for its response meanwhile waits at most the configured
\* timeout.
C38_ScopedTimeoutExtension ==
  /\ sms.pc = "ret" => timeout.dev = ConfigTimeout
  /\ \A c \in Others : pc[c] = "await" => timeout.armed[c] <= ConfigTimeout


C40_UrcDeliveryOrder ==
  /\ \A i, j \in 1..Len(urcs.started) : i < j => urcs.started[i] < urcs.started[j]
  /\ Len(urcs.created) = nUrc
  /\ \A i, j \in 1..Len(urcs.created) : i < j => urcs.created[i] < urcs.created[j]

====
